---- MODULE Spec2Model ----
(***************************************************************************)
(* A model of the glTF 2.0 loader of NeoDoom (src/common/models):          *)
(*   - the format sniffers and validators of model_gltf.cpp, as operators  *)
(*     over byte sequences (specification SniffSpec);                      *)
(*   - the life of one FGLTFModel instance: LoadWithOptions, the stages of *)
(*     ProcessAsset and the final validation (specifications Spec and      *)
(*     FairSpec).                                                          *)
(* Bytes are the integers 0..255.  A uint32_t is the pair <<hi, lo>> of    *)
(* its 16-bit halves, so that its arithmetic keeps the width of 32 bits.   *)
(***************************************************************************)
EXTENDS Integers, Sequences, FiniteSets, TLC

VARIABLES
    sBuf,       \* SniffSpec: the (buffer, length) argument of the call
    sRes,       \* SniffSpec: the function called, its return value and its result
    pc,             \* where the instance's LoadWithOptions call stands ("idle": not in a call)
    loads,          \* LoadWithOptions calls made on the instance so far
    lastReturn,     \* what the last LoadWithOptions call to return returned ("none": none has)
    callArgs,       \* path and buffer of the call in progress, until their last use
    parserInvoked,  \* whether the call in progress (or the last one) reached the parser
    isValid, lastError, validateOnLoad, asset, buffers, textures, scene,
    modelAnimations, hasSkinning, basePose, boneMatrices,
    stack,          \* ComputeNodeTransforms: the frames of computeGlobal
    rootCursor,     \* ComputeNodeTransforms: the next entry of rootNodeIndices
    currentAnimationIndex, lastAnimationTime,
    selectedAt      \* history: the time of the last SetCurrentAnimation that selected an
                    \* animation, while no update since came earlier than the one before it; else -1

sniffVars == <<sBuf, sRes>>

playVars == <<currentAnimationIndex, lastAnimationTime, selectedAt>>

modelVars ==
    <<pc, loads, lastReturn, callArgs, parserInvoked, isValid, lastError,
      validateOnLoad, asset, buffers, textures, scene, modelAnimations,
      hasSkinning, basePose, boneMatrices, stack, rootCursor, playVars>>

vars == <<sniffVars, modelVars>>

(***************************************************************************)
(* Bounds of the model.                                                    *)
(***************************************************************************)
MaxTextLen == 4      \* longest text over BraceAlphabet given to the validators
MaxPadWords == 4     \* 32-bit words a GLB input holds after its 12-byte header
MaxFill == 2         \* filler bytes appended to a JSON document
MaxLoads == 2        \* LoadWithOptions calls on one instance
MaxStack == 5        \* frames of computeGlobal the call stack holds
MaxClock == 2        \* times the clock of the animation calls shows: 0 .. MaxClock

(***************************************************************************)
(* uint32_t arithmetic on <<hi, lo>> pairs.                                *)
(***************************************************************************)
U32(n) == <<n \div 65536, n % 65536>>

U32Add(a, b) ==
    LET lo == a[2] + b[2]
        hi == a[1] + b[1] + (lo \div 65536)
    IN  <<hi % 65536, lo % 65536>>

U32Gt(a, b) == a[1] > b[1] \/ (a[1] = b[1] /\ a[2] > b[2])

\* header[w] of reinterpret_cast<const uint32_t*>(buffer), little-endian host.
ReadU32(bytes, w) ==
    <<bytes[4 * w + 4] * 256 + bytes[4 * w + 3],
      bytes[4 * w + 2] * 256 + bytes[4 * w + 1]>>

\* The four bytes that hold a uint32_t in a little-endian file.
U32Bytes(x) == <<x[2] % 256, x[2] \div 256, x[1] % 256, x[1] \div 256>>

GLBMagic == <<17972, 27751>>        \* 0x46546C67, "glTF"
JSONChunkType == <<20047, 21322>>   \* 0x4E4F534A, "JSON"
GLBVersion == U32(2)

AssetKey == <<34, 97, 115, 115, 101, 116, 34>>                 \* "asset" with its quotes
VersionKey == <<34, 118, 101, 114, 115, 105, 111, 110, 34>>    \* "version" with its quotes

(***************************************************************************)
(* GLTFLoadResult.                                                         *)
(***************************************************************************)
ClearResult == [error |-> "None", errorMessage |-> "", errorLine |-> -1]

SetError(err, msg, line) == [error |-> err, errorMessage |-> msg, errorLine |-> line]

\* What a detection or validation function hands back: its return value and
\* the GLTFLoadResult it was given, as it leaves it.
Ret(ok, result) == [ret |-> ok, result |-> result]

(***************************************************************************)
(* strstr: the search runs over the C string that starts at the buffer,    *)
(* that is up to the first NUL byte of the memory, the buffer's own bytes  *)
(* followed by whatever lies behind them (b.tail).                         *)
(***************************************************************************)
RECURSIVE CStrLen(_, _)
CStrLen(mem, i) ==
    IF i > Len(mem) \/ mem[i] = 0 THEN i - 1 ELSE CStrLen(mem, i + 1)

Contains(s, pat) ==
    \E k \in 0 .. (Len(s) - Len(pat)) :
        \A j \in 1 .. Len(pat) : s[k + j] = pat[j]

StrStr(b, pat) ==
    LET mem == b.bytes \o b.tail
    IN  Contains(SubSeq(mem, 1, CStrLen(mem, 1)), pat)

(***************************************************************************)
(* IsGLTFFile, IsGLBFile (result is the GLTFLoadResult the caller passes). *)
(***************************************************************************)
IsGLTFFile(b, result) ==
    IF b.null \/ Len(b.bytes) < 4
    THEN Ret(FALSE, SetError("InvalidFormat", "Buffer too small or null", -1))
    ELSE IF Len(b.bytes) >= 20
    THEN IF b.bytes[1] # 123
         THEN Ret(FALSE, SetError("InvalidFormat", "Not a JSON file", -1))
         ELSE IF StrStr(b, AssetKey) /\ StrStr(b, VersionKey)
         THEN Ret(TRUE, result)
         ELSE Ret(FALSE, SetError("MissingRequiredData", "Missing asset or version field", -1))
    ELSE Ret(FALSE, SetError("InvalidFormat", "File too small for glTF JSON", -1))

\* The number of leading bytes of the buffer IsGLTFFile reads: none before
\* the length tests, str[0], then strstr up to and including the NUL.
IsGLTFFileReads(b) ==
    IF b.null \/ Len(b.bytes) < 4 THEN 0
    ELSE IF Len(b.bytes) < 20 THEN 0
    ELSE IF b.bytes[1] # 123 THEN 1
    ELSE CStrLen(b.bytes \o b.tail, 1) + 1

\* The number of leading bytes IsGLBFile reads: header[0], [1], [2] in turn.
IsGLBFileReads(b) ==
    IF b.null \/ Len(b.bytes) < 12 THEN 0
    ELSE IF ReadU32(b.bytes, 0) # GLBMagic THEN 4
    ELSE IF ReadU32(b.bytes, 1) # GLBVersion THEN 8
    ELSE 12

\* A plausible slip: a short buffer reported as a corrupted one.
IsGLBFileShortIsCorrupted(b, result) ==
    IF b.null \/ Len(b.bytes) < 12
    THEN Ret(FALSE, SetError("CorruptedBuffer", "Buffer too small for GLB header", -1))
    ELSE Ret(ReadU32(b.bytes, 0) = GLBMagic, result)

\* A plausible slip: the length comparison turned around.
IsGLBFileLengthInverted(b, result) ==
    IF b.null \/ Len(b.bytes) < 12
    THEN Ret(FALSE, SetError("InvalidFormat", "Buffer too small for GLB header", -1))
    ELSE IF ReadU32(b.bytes, 0) # GLBMagic
    THEN Ret(FALSE, SetError("InvalidFormat", "Invalid GLB magic number", -1))
    ELSE IF ReadU32(b.bytes, 1) # GLBVersion
    THEN Ret(FALSE, SetError("UnsupportedVersion", "Unsupported GLB version", -1))
    ELSE IF U32Gt(U32(Len(b.bytes)), ReadU32(b.bytes, 2))
    THEN Ret(FALSE, SetError("CorruptedBuffer", "GLB file length mismatch", -1))
    ELSE Ret(TRUE, result)

IsGLBFile(b, result) ==
    IF b.null \/ Len(b.bytes) < 12
    THEN Ret(FALSE, SetError("InvalidFormat", "Buffer too small for GLB header", -1))
    ELSE IF ReadU32(b.bytes, 0) # GLBMagic
    THEN Ret(FALSE, SetError("InvalidFormat", "Invalid GLB magic number", -1))
    ELSE IF ReadU32(b.bytes, 1) # GLBVersion
    THEN Ret(FALSE, SetError("UnsupportedVersion", "Unsupported GLB version", -1))
    ELSE IF U32Gt(ReadU32(b.bytes, 2), U32(Len(b.bytes)))
    THEN Ret(FALSE, SetError("CorruptedBuffer", "GLB file length mismatch", -1))
    ELSE Ret(TRUE, result)

(***************************************************************************)
(* ValidateGLTFBuffer: the loop over the bytes, with its three locals.     *)
(***************************************************************************)
RECURSIVE ScanBraces(_, _, _, _, _)
ScanBraces(bytes, i, braceCount, inString, escaped) ==
    IF i > Len(bytes)
    THEN IF braceCount # 0
         THEN Ret(FALSE, SetError("InvalidFormat", "Unmatched braces in JSON", -1))
         ELSE Ret(TRUE, ClearResult)
    ELSE LET c == bytes[i] IN
         IF escaped THEN ScanBraces(bytes, i + 1, braceCount, inString, FALSE)
         ELSE IF c = 92 THEN ScanBraces(bytes, i + 1, braceCount, inString, TRUE)
         ELSE IF c = 34 THEN ScanBraces(bytes, i + 1, braceCount, ~inString, FALSE)
         ELSE IF ~inString /\ c = 123
         THEN ScanBraces(bytes, i + 1, braceCount + 1, inString, FALSE)
         ELSE IF ~inString /\ c = 125
         THEN IF braceCount - 1 < 0
              THEN Ret(FALSE, SetError("InvalidFormat", "Unmatched closing brace", i - 1))
              ELSE ScanBraces(bytes, i + 1, braceCount - 1, inString, FALSE)
         ELSE ScanBraces(bytes, i + 1, braceCount, inString, FALSE)

ValidateGLTFBuffer(b) ==
    IF b.null THEN Ret(FALSE, SetError("InvalidFormat", "Null buffer", -1))
    ELSE IF Len(b.bytes) <= 0
    THEN Ret(FALSE, SetError("InvalidFormat", "Invalid buffer length", -1))
    ELSE ScanBraces(b.bytes, 1, 0, FALSE, FALSE)

(***************************************************************************)
(* ValidateGLBHeader.  12 + 8 + chunkLength is a uint32_t sum.             *)
(***************************************************************************)
ValidateGLBHeader(b) ==
    LET glb == IsGLBFile(b, ClearResult) IN
    IF ~glb.ret THEN Ret(FALSE, glb.result)
    ELSE IF Len(b.bytes) < 20
    THEN Ret(FALSE, SetError("InvalidFormat", "GLB file too small", -1))
    ELSE LET fileLength == ReadU32(b.bytes, 2)
             chunkLength == ReadU32(b.bytes, 3)
             chunkType == ReadU32(b.bytes, 4)
         IN  IF chunkType # JSONChunkType
             THEN Ret(FALSE, SetError("InvalidFormat", "First chunk must be JSON", -1))
             ELSE IF U32Gt(U32Add(U32(12 + 8), chunkLength), fileLength)
             THEN Ret(FALSE, SetError("CorruptedBuffer", "JSON chunk size exceeds file length", -1))
             ELSE Ret(TRUE, glb.result)

(***************************************************************************)
(* The parsed asset (fastgltf::Asset) and the scene built from it.         *)
(* Indices are 0-based as in the code; -1 is an absent optional.  A float  *)
(* is its four bytes (the bit pattern); the floats of the model are not    *)
(* negative, so they are ordered as their bit patterns are.                *)
(***************************************************************************)
Zeros(n) == [i \in 1 .. n |-> 0]

F32(n) == <<n % 256, n \div 256, 0, 0>>

At(seq, i) == seq[i + 1]

\* TArray::Resize: shrinks by cutting the end, grows by default elements.
Resize(seq, n, default) ==
    IF Len(seq) >= n THEN SubSeq(seq, 1, n)
    ELSE seq \o [i \in 1 .. (n - Len(seq)) |-> default]

IdentityTRS == [translation |-> <<0, 0, 0>>, rotation |-> <<0, 0, 0, 1>>, scaling |-> <<1, 1, 1>>]

TRSAt(x) == [IdentityTRS EXCEPT !.translation = <<x, 0, 0>>]

\* A 4x4 matrix is the sequence of the factors it is the product of (the
\* identity is the empty product); an uninitialized VSMatrix is one unknown
\* factor.
IdentityMatrix == <<>>

Factor(kind, transform, floats) == [f |-> kind, v |-> transform, m |-> floats]

UninitMatrix == <<Factor("uninit", IdentityTRS, <<>>)>>

\* BuildMatrixFromTRS
BuildMatrixFromTRS(transform) ==
    IF transform = IdentityTRS THEN IdentityMatrix ELSE <<Factor("trs", transform, <<>>)>>

\* A product that drops its right factor.
MultMatrixLeft(a, b) == a

MultMatrix(a, b) == a \o b

EmbeddedBuffer(bytes) == [byteLength |-> Len(bytes), source |-> "vector", bytes |-> bytes]

\* bytes: what the byte-loader returns for the URI when it finds it.
ExternalBuffer(declared, bytes) == [byteLength |-> declared, source |-> "uri", bytes |-> bytes]

View(buffer, offset, length, stride) ==
    [bufferIndex |-> buffer, byteOffset |-> offset, byteLength |-> length, byteStride |-> stride]

Accessor(view, offset, componentType, type, count) ==
    [bufferViewIndex |-> view, byteOffset |-> offset, componentType |-> componentType,
     type |-> type, count |-> count]

Primitive(attributes, indices, material) ==
    [attributes |-> attributes, indicesAccessor |-> indices, materialIndex |-> material]

GNode(children, mesh, skin, transform) ==
    [children |-> children, meshIndex |-> mesh, skinIndex |-> skin, transform |-> transform]

Sampler(input, output) == [inputAccessor |-> input, outputAccessor |-> output, interpolation |-> "LINEAR"]

Channel(sampler, node, path) == [samplerIndex |-> sampler, nodeIndex |-> node, path |-> path]

NoTextures ==
    [baseColorTexture |-> -1, metallicRoughnessTexture |-> -1, normalTexture |-> -1,
     occlusionTexture |-> -1, emissiveTexture |-> -1]

EmptyAsset ==
    [present |-> TRUE, buffers |-> <<>>, bufferViews |-> <<>>, accessors |-> <<>>,
     meshes |-> <<>>, nodes |-> <<>>, skins |-> <<>>, animations |-> <<>>,
     textures |-> <<>>, images |-> <<>>, materials |-> <<>>]

NullAsset == [EmptyAsset EXCEPT !.present = FALSE]

\* The minimal asset of the end-to-end scenario: one primitive of 3 positions
\* in a binary chunk of 36 zero bytes, one node.
MinimalAsset ==
    [EmptyAsset EXCEPT
        !.buffers = <<EmbeddedBuffer(Zeros(36))>>,
        !.bufferViews = <<View(0, 0, 36, 0)>>,
        !.accessors = <<Accessor(0, 0, "Float", "Vec3", 3)>>,
        !.meshes = <<[primitives |-> <<Primitive([POSITION |-> 0], -1, -1)>>]>>,
        !.nodes = <<GNode(<<>>, 0, -1, IdentityTRS)>>]

\* The minimal asset with two meshes: a primitive that has a NORMAL but no
\* POSITION in front of a complete one, and a mesh whose only primitive has
\* no POSITION.
NoPositionAsset ==
    [MinimalAsset EXCEPT
        !.meshes = <<[primitives |-> <<Primitive([NORMAL |-> 0], -1, -1),
                                       Primitive([POSITION |-> 0], -1, -1)>>],
                     [primitives |-> <<Primitive([NORMAL |-> 0], -1, -1)>>]>>]

\* The minimal asset with a second, external buffer of 4 bytes behind an
\* accessor that no primitive uses.
ExternalAsset ==
    [MinimalAsset EXCEPT
        !.buffers = <<EmbeddedBuffer(Zeros(36)), ExternalBuffer(4, F32(1))>>,
        !.bufferViews = <<View(0, 0, 36, 0), View(1, 0, 4, 0)>>,
        !.accessors = <<Accessor(0, 0, "Float", "Vec3", 3), Accessor(1, 0, "Float", "Scalar", 1)>>]

\* The same with a file behind the URI that is longer than the declared 4 bytes.
LongFileAsset ==
    [ExternalAsset EXCEPT !.buffers[2] = ExternalBuffer(4, F32(1) \o F32(2))]

\* The minimal asset with a material and one texture whose image is a URI.
TexturedAsset ==
    [MinimalAsset EXCEPT
        !.meshes = <<[primitives |-> <<Primitive([POSITION |-> 0], -1, 0)>>]>>,
        !.textures = <<[imageIndex |-> 0]>>,
        !.images = <<[source |-> "uri"]>>,
        !.materials = <<[NoTextures EXCEPT !.baseColorTexture = 0]>>]

\* Node 0 is a root, and below it nodes 1 and 2 are each other's child.
CyclicAsset ==
    [EmptyAsset EXCEPT
        !.nodes = <<GNode(<<1>>, -1, -1, TRSAt(1)), GNode(<<2>>, -1, -1, TRSAt(2)),
                    GNode(<<1>>, -1, -1, TRSAt(3))>>]

\* Node 0 is a root with the children 1 and 2, and node 2 is also a child of
\* node 1: two paths to node 2, no cycle.
DiamondAsset ==
    [EmptyAsset EXCEPT
        !.nodes = <<GNode(<<1, 2>>, -1, -1, TRSAt(1)), GNode(<<2>>, -1, -1, TRSAt(2)),
                    GNode(<<>>, -1, -1, TRSAt(3))>>]

\* Nodes 0 and 1 are each other's child: a cycle with no root.
RootlessCycleAsset ==
    [EmptyAsset EXCEPT
        !.nodes = <<GNode(<<1>>, -1, -1, IdentityTRS), GNode(<<0>>, -1, -1, TRSAt(1))>>]

\* Times 0 and 1 (accessor 0), an empty time track (accessor 1), two vec3
\* values (accessor 2); a root with two children.
AnimBase ==
    [EmptyAsset EXCEPT
        !.buffers = <<EmbeddedBuffer(F32(0) \o F32(1) \o Zeros(12) \o F32(1) \o F32(1) \o F32(1))>>,
        !.bufferViews = <<View(0, 0, 8, 0), View(0, 8, 24, 0)>>,
        !.accessors = <<Accessor(0, 0, "Float", "Scalar", 2), Accessor(0, 0, "Float", "Scalar", 0),
                        Accessor(1, 0, "Float", "Vec3", 2)>>,
        !.nodes = <<GNode(<<1, 2>>, -1, -1, IdentityTRS), GNode(<<>>, -1, -1, TRSAt(1)),
                    GNode(<<>>, -1, -1, TRSAt(2))>>]

GoodAnimation == [samplers |-> <<Sampler(0, 2)>>, channels |-> <<Channel(0, 1, "translation")>>]

EmptyTrackAnimation == [samplers |-> <<Sampler(1, 2)>>, channels |-> <<Channel(0, 2, "translation")>>]

AnimatedAsset == [AnimBase EXCEPT !.animations = <<GoodAnimation>>]

FirstAnimationFailsAsset == [AnimBase EXCEPT !.animations = <<EmptyTrackAnimation, GoodAnimation>>]

LastAnimationFailsAsset == [AnimBase EXCEPT !.animations = <<GoodAnimation, EmptyTrackAnimation>>]

\* A well-formed sampler and a channel that names sampler 3 of a list of one.
BadChannelAsset ==
    [AnimBase EXCEPT
        !.animations = <<[samplers |-> <<Sampler(0, 2)>>,
                          channels |-> <<Channel(3, 1, "translation")>>]>>]

\* One skinned vertex: position, JOINTS_0 and WEIGHTS_0; a skin of two
\* joints without inverse-bind matrices; an animation of the second joint.
SkinnedAsset ==
    [EmptyAsset EXCEPT
        !.buffers = <<EmbeddedBuffer(Zeros(12) \o <<0, 1, 0, 0>> \o F32(1) \o Zeros(12)
                                       \o F32(0) \o F32(1) \o Zeros(12) \o F32(1) \o F32(1) \o F32(1))>>,
        !.bufferViews = <<View(0, 0, 12, 0), View(0, 12, 4, 0), View(0, 16, 16, 0),
                          View(0, 32, 8, 0), View(0, 40, 24, 0)>>,
        !.accessors = <<Accessor(0, 0, "Float", "Vec3", 1), Accessor(1, 0, "UnsignedByte", "Vec4", 1),
                        Accessor(2, 0, "Float", "Vec4", 1), Accessor(3, 0, "Float", "Scalar", 2),
                        Accessor(4, 0, "Float", "Vec3", 2)>>,
        !.meshes = <<[primitives |->
                        <<Primitive([POSITION |-> 0, JOINTS_0 |-> 1, WEIGHTS_0 |-> 2], -1, -1)>>]>>,
        !.nodes = <<GNode(<<1>>, 0, 0, TRSAt(1)), GNode(<<>>, -1, -1, TRSAt(2))>>,
        !.skins = <<[joints |-> <<0, 1>>, inverseBindMatrices |-> -1, skeleton |-> 0]>>,
        !.animations = <<[samplers |-> <<Sampler(3, 4)>>,
                          channels |-> <<Channel(0, 1, "translation")>>]>>]

\* The skinned vertex with two tracks for the second joint: a translation
\* keyed at times 0 and 1 and a scale keyed at times 1 and 3.
TwoTrackAsset ==
    [SkinnedAsset EXCEPT
        !.buffers = <<EmbeddedBuffer(Zeros(12) \o <<0, 1, 0, 0>> \o F32(1) \o Zeros(12)
                                       \o F32(0) \o F32(1) \o Zeros(12) \o F32(1) \o F32(1) \o F32(1)
                                       \o F32(1) \o F32(3))>>,
        !.bufferViews = <<View(0, 0, 12, 0), View(0, 12, 4, 0), View(0, 16, 16, 0),
                          View(0, 32, 8, 0), View(0, 40, 24, 0), View(0, 64, 8, 0)>>,
        !.accessors = <<Accessor(0, 0, "Float", "Vec3", 1), Accessor(1, 0, "UnsignedByte", "Vec4", 1),
                        Accessor(2, 0, "Float", "Vec4", 1), Accessor(3, 0, "Float", "Scalar", 2),
                        Accessor(4, 0, "Float", "Vec3", 2), Accessor(5, 0, "Float", "Scalar", 2)>>,
        !.animations = <<[samplers |-> <<Sampler(3, 4), Sampler(5, 4)>>,
                          channels |-> <<Channel(0, 1, "translation"), Channel(1, 1, "scale")>>]>>]

\* The skinned vertex with one translation track of three keyframes at
\* times 0, 1 and 3 with the values (0,0,0), (1,1,1) and (2,2,2).
ThreeKeyAsset ==
    [SkinnedAsset EXCEPT
        !.buffers = <<EmbeddedBuffer(Zeros(12) \o <<0, 1, 0, 0>> \o F32(1) \o Zeros(12)
                                       \o F32(0) \o F32(1) \o Zeros(12) \o F32(1) \o F32(1) \o F32(1)
                                       \o F32(0) \o F32(1) \o F32(3)
                                       \o Zeros(12) \o F32(1) \o F32(1) \o F32(1)
                                       \o F32(2) \o F32(2) \o F32(2))>>,
        !.bufferViews = <<View(0, 0, 12, 0), View(0, 12, 4, 0), View(0, 16, 16, 0),
                          View(0, 32, 8, 0), View(0, 40, 24, 0), View(0, 64, 12, 0),
                          View(0, 76, 36, 0)>>,
        !.accessors = <<Accessor(0, 0, "Float", "Vec3", 1), Accessor(1, 0, "UnsignedByte", "Vec4", 1),
                        Accessor(2, 0, "Float", "Vec4", 1), Accessor(3, 0, "Float", "Scalar", 2),
                        Accessor(4, 0, "Float", "Vec3", 2), Accessor(5, 0, "Float", "Scalar", 3),
                        Accessor(6, 0, "Float", "Vec3", 3)>>,
        !.animations = <<[samplers |-> <<Sampler(5, 6)>>,
                          channels |-> <<Channel(0, 1, "translation")>>]>>]

\* The 64 bytes of a column-major 4x4 float matrix that is the identity but
\* for its translation x.
Mat4Bytes(x) ==
    F32(1) \o Zeros(16) \o F32(1) \o Zeros(16) \o F32(1) \o Zeros(4) \o F32(x) \o Zeros(8) \o F32(1)

\* The skinned vertex with inverse-bind matrices: the identity for the first
\* joint, a translation for the second.
InverseBindAsset ==
    [SkinnedAsset EXCEPT
        !.buffers = <<EmbeddedBuffer(Zeros(12) \o <<0, 1, 0, 0>> \o F32(1) \o Zeros(12)
                                       \o F32(0) \o F32(1) \o Zeros(12) \o F32(1) \o F32(1) \o F32(1)
                                       \o Mat4Bytes(0) \o Mat4Bytes(5))>>,
        !.bufferViews = <<View(0, 0, 12, 0), View(0, 12, 4, 0), View(0, 16, 16, 0),
                          View(0, 32, 8, 0), View(0, 40, 24, 0), View(0, 64, 128, 0)>>,
        !.accessors = <<Accessor(0, 0, "Float", "Vec3", 1), Accessor(1, 0, "UnsignedByte", "Vec4", 1),
                        Accessor(2, 0, "Float", "Vec4", 1), Accessor(3, 0, "Float", "Scalar", 2),
                        Accessor(4, 0, "Float", "Vec3", 2), Accessor(5, 0, "Float", "Mat4", 2)>>,
        !.skins = <<[joints |-> <<0, 1>>, inverseBindMatrices |-> 5, skeleton |-> 0]>>]

\* The skinned vertex with a second skin that lists the same two joint
\* nodes in the opposite order.
TwoSkinAsset ==
    [SkinnedAsset EXCEPT
        !.skins = <<[joints |-> <<0, 1>>, inverseBindMatrices |-> -1, skeleton |-> 0],
                    [joints |-> <<1, 0>>, inverseBindMatrices |-> -1, skeleton |-> 0]>>]

\* Two positions interleaved with 4 bytes of padding each (byteStride 16) in
\* a buffer whose byte k holds the marker k + 1.
InterleavedAsset ==
    [MinimalAsset EXCEPT
        !.buffers = <<EmbeddedBuffer([k \in 1 .. 32 |-> k])>>,
        !.bufferViews = <<View(0, 0, 32, 16)>>,
        !.accessors = <<Accessor(0, 0, "Float", "Vec3", 2)>>]

\* The same two positions with byteStride 16 in a buffer of 24 bytes: the
\* packed size count * 12 fits, the second element at offset 16 does not.
ShortInterleavedAsset ==
    [MinimalAsset EXCEPT
        !.buffers = <<EmbeddedBuffer([k \in 1 .. 24 |-> k])>>,
        !.bufferViews = <<View(0, 0, 24, 16)>>,
        !.accessors = <<Accessor(0, 0, "Float", "Vec3", 2)>>]

\* Accessors that reach past the 36 bytes of their buffer: positions, the
\* inverse-bind matrices of a skin, the times of an animation.
OverrunAsset ==
    [MinimalAsset EXCEPT
        !.accessors = <<Accessor(0, 0, "Float", "Vec3", 4), Accessor(0, 0, "Float", "Mat4", 1),
                        Accessor(0, 0, "Float", "Scalar", 10)>>,
        !.skins = <<[joints |-> <<0>>, inverseBindMatrices |-> 1, skeleton |-> -1]>>,
        !.animations = <<[samplers |-> <<Sampler(2, 2)>>,
                          channels |-> <<Channel(0, 0, "translation")>>]>>]

\* What the parser may hand back for an input it accepts.
Assets ==
    {MinimalAsset, NoPositionAsset, ExternalAsset, LongFileAsset, TexturedAsset, CyclicAsset, DiamondAsset, RootlessCycleAsset,
     AnimatedAsset, BadChannelAsset, FirstAnimationFailsAsset, LastAnimationFailsAsset, SkinnedAsset, TwoTrackAsset,
     ThreeKeyAsset, InverseBindAsset,
     TwoSkinAsset, InterleavedAsset, ShortInterleavedAsset, OverrunAsset}

(***************************************************************************)
(* The accessor decoder.                                                   *)
(***************************************************************************)
ComponentCount(type) ==
    CASE type = "Scalar" -> 1 [] type = "Vec2" -> 2 [] type = "Vec3" -> 3
      [] type = "Vec4" -> 4 [] type = "Mat4" -> 16

ComponentSize(componentType) ==
    CASE componentType \in {"Byte", "UnsignedByte"} -> 1
      [] componentType \in {"Short", "UnsignedShort"} -> 2
      [] componentType \in {"UnsignedInt", "Float"} -> 4

\* fastgltf::getElementByteSize
ElementByteSize(type, componentType) == ComponentCount(type) * ComponentSize(componentType)

ReadFailed == [ok |-> FALSE, count |-> 0, stride |-> 0, data |-> <<>>, oob |-> FALSE]

\* A copy that takes the data as tightly packed whatever the view's stride.
CopyAccessorPacked(src, base, outCount, outStride, step, g) ==
    [ok |-> TRUE, count |-> outCount, stride |-> outStride,
     data |-> [k \in 1 .. outCount * outStride |->
                 IF base + (k - 1) < Len(src) THEN At(src, base + (k - 1)) ELSE g],
     oob |-> \E k \in 1 .. outCount * outStride : base + (k - 1) >= Len(src)]

\* The copy loops of ReadAccessor: byte k of the output comes from offset
\* base + (k - 1) of the source when packed, from the element's stride
\* when interleaved.  The copy checks no bound: a byte it reads outside
\* the owning buffer is undefined behaviour, here the byte g with oob set.
CopyAccessor(src, base, outCount, outStride, step, g) ==
    [ok |-> TRUE, count |-> outCount, stride |-> outStride,
     data |-> [k \in 1 .. outCount * outStride |->
                 IF base + ((k - 1) \div outStride) * step + ((k - 1) % outStride) < Len(src)
                 THEN At(src, base + ((k - 1) \div outStride) * step + ((k - 1) % outStride))
                 ELSE g],
     oob |-> \E k \in 1 .. outCount * outStride :
                base + ((k - 1) \div outStride) * step + ((k - 1) % outStride) >= Len(src)]

ReadView(accessor, bufferView, bufs, outStride, g) ==
    CopyAccessor(At(bufs, bufferView.bufferIndex),
                 bufferView.byteOffset + accessor.byteOffset,
                 accessor.count, outStride,
                 IF bufferView.byteStride # 0 /\ bufferView.byteStride # outStride
                 THEN bufferView.byteStride ELSE outStride,
                 g)

ReadAccessor(a, bufs, accessorIndex, g) ==
    IF accessorIndex < 0 \/ accessorIndex >= Len(a.accessors) THEN ReadFailed
    ELSE IF At(a.accessors, accessorIndex).bufferViewIndex = -1 THEN ReadFailed
    ELSE ReadView(At(a.accessors, accessorIndex),
                  At(a.bufferViews, At(a.accessors, accessorIndex).bufferViewIndex),
                  bufs,
                  ElementByteSize(At(a.accessors, accessorIndex).type,
                                  At(a.accessors, accessorIndex).componentType),
                  g)

\* IsAccessorValid
IsAccessorValid(a, accessorIndex) ==
    a.present /\ accessorIndex >= 0 /\ accessorIndex < Len(a.accessors)

\* Element i (0-based) of n bytes each, out of raw bytes; a byte past the
\* end of raw is read out of bounds.
Element(raw, i, n, g) ==
    [j \in 1 .. n |-> IF i * n + j <= Len(raw) THEN raw[i * n + j] ELSE g]

NoRead == [ok |-> FALSE, out |-> <<>>, oob |-> FALSE]

\* The generic ReadAccessorTyped<T> on the raw read r: copies count * sizeof(T) bytes.
TypedFrom(r, sizeofT, g) ==
    IF ~r.ok THEN NoRead
    ELSE [ok |-> TRUE,
          out |-> [i \in 1 .. r.count |-> Element(r.data, i - 1, sizeofT, g)],
          oob |-> r.oob \/ r.count * sizeofT > Len(r.data)]

ReadAccessorTyped(a, bufs, accessorIndex, sizeofT, g) ==
    TypedFrom(ReadAccessor(a, bufs, accessorIndex, g), sizeofT, g)

\* An element of floats: its bytes in groups of four.
Floats(bytes) == [i \in 1 .. (Len(bytes) \div 4) |-> SubSeq(bytes, 4 * i - 3, 4 * i)]

UninitFloats(n) == [i \in 1 .. n |-> <<0, 0, 0, 0>>]

\* ReadAccessorTyped<FVector3> on the raw read r: out is the destination
\* array as the call leaves it.
Vec3From(accessor, valid, r, g) ==
    IF ~r.ok \/ ~valid THEN NoRead
    ELSE IF accessor.type = "Vec3"
    THEN IF accessor.componentType = "Float"
         THEN [ok |-> TRUE,
               out |-> [i \in 1 .. r.count |-> Floats(Element(r.data, i - 1, 12, g))],
               oob |-> r.oob]
         ELSE [ok |-> FALSE, out |-> [i \in 1 .. r.count |-> UninitFloats(3)], oob |-> r.oob]
    ELSE [ok |-> FALSE, out |-> <<>>, oob |-> r.oob]

\* The accessor a typed read looks at once the raw read has succeeded.
AccessorAt(a, accessorIndex) ==
    IF IsAccessorValid(a, accessorIndex) THEN At(a.accessors, accessorIndex)
    ELSE Accessor(-1, 0, "Byte", "Scalar", 0)

ReadAccessorVec3(a, bufs, accessorIndex, g) ==
    Vec3From(AccessorAt(a, accessorIndex), IsAccessorValid(a, accessorIndex),
             ReadAccessor(a, bufs, accessorIndex, g), g)

(***************************************************************************)
(* The instance: the defaults of its structs, and its state after the      *)
(* constructor.                                                            *)
(***************************************************************************)
DefaultMaterial ==
    [baseColorTextureIndex |-> -1, metallicRoughnessTextureIndex |-> -1,
     normalTextureIndex |-> -1, occlusionTextureIndex |-> -1, emissiveTextureIndex |-> -1]

DefaultVertex ==
    [position |-> UninitFloats(3), normal |-> UninitFloats(3), uv |-> UninitFloats(2),
     tangent |-> <<F32(0), F32(0), F32(0), F32(1)>>,
     color0 |-> <<F32(1), F32(1), F32(1), F32(1)>>,
     boneIndices |-> <<0, 0, 0, 0>>, boneWeights |-> <<F32(0), F32(0), F32(0), F32(0)>>]

DefaultMesh ==
    [vertices |-> <<>>, indices |-> <<>>, material |-> DefaultMaterial, materialIndex |-> -1]

DefaultNode ==
    [parentIndex |-> -1, childIndices |-> <<>>, transform |-> IdentityTRS,
     localMatrix |-> UninitMatrix, globalMatrix |-> UninitMatrix,
     meshIndex |-> -1, skinIndex |-> -1, isBone |-> FALSE, boneIndex |-> -1]

DefaultSkin == [jointIndices |-> <<>>, inverseBindMatrices |-> <<>>, skeletonRootIndex |-> -1]

DefaultAnimation == [samplers |-> <<>>, channels |-> <<>>, duration |-> F32(0)]

\* A ModelAnim: once filled, its lastFrame is int(duration * 30).
DefaultModelAnim == [filled |-> FALSE, duration |-> F32(0), framerate |-> 0]

EmptyScene ==
    [meshes |-> <<>>, nodes |-> <<>>, skins |-> <<>>, animations |-> <<>>, rootNodeIndices |-> <<>>]

NoArgs == [path |-> "none", buffer |-> [null |-> TRUE, bytes |-> <<>>, tail |-> <<0>>]]

\* FGLTFModel::FGLTFModel and the member initializers of the class.
ModelInit ==
    /\ pc = "idle"
    /\ loads = 0
    /\ lastReturn = "none"
    /\ callArgs = NoArgs
    /\ parserInvoked = FALSE
    /\ isValid = FALSE
    /\ lastError = ClearResult
    /\ validateOnLoad = TRUE
    /\ asset = NullAsset
    /\ buffers = <<>>
    /\ textures = <<>>
    /\ scene = EmptyScene
    /\ modelAnimations = <<>>
    /\ hasSkinning = FALSE
    /\ basePose = <<>>
    /\ boneMatrices = <<>>
    /\ stack = <<>>
    /\ rootCursor = 0
    /\ currentAnimationIndex = -1
    /\ lastAnimationTime = 0
    /\ selectedAt = -1

(***************************************************************************)
(* The typed reads and the mesh stage's helpers.                           *)
(***************************************************************************)
\* ReadAccessorTyped<FVector4> and <FQuaternion> on the raw read r.
Vec4From(accessor, valid, r, g) ==
    IF ~r.ok \/ ~valid THEN NoRead
    ELSE IF accessor.type = "Vec4" /\ accessor.componentType = "Float"
    THEN [ok |-> TRUE,
          out |-> [i \in 1 .. r.count |-> Floats(Element(r.data, i - 1, 16, g))],
          oob |-> r.oob]
    ELSE [ok |-> FALSE, out |-> <<>>, oob |-> r.oob]

ReadAccessorVec4(a, bufs, accessorIndex, g) ==
    Vec4From(AccessorAt(a, accessorIndex), IsAccessorValid(a, accessorIndex),
             ReadAccessor(a, bufs, accessorIndex, g), g)

\* Byte k (1-based) of the raw bytes, or what lies behind them.
RawByte(raw, k, g) == IF k <= Len(raw) THEN raw[k] ELSE g

\* ReadAccessorTyped<uint32_t> on the raw read r: a value is its four
\* bytes, low byte first.
U32From(accessor, valid, r, g) ==
    IF ~r.ok \/ ~valid THEN NoRead
    ELSE CASE accessor.componentType = "UnsignedInt" ->
                [ok |-> TRUE,
                 out |-> [i \in 1 .. r.count |-> Element(r.data, i - 1, 4, g)],
                 oob |-> r.oob \/ r.count * 4 > Len(r.data)]
           [] accessor.componentType = "UnsignedShort" ->
                [ok |-> TRUE,
                 out |-> [i \in 1 .. r.count |->
                            <<RawByte(r.data, 2 * i - 1, g), RawByte(r.data, 2 * i, g), 0, 0>>],
                 oob |-> r.oob \/ r.count * 2 > Len(r.data)]
           [] accessor.componentType = "UnsignedByte" ->
                [ok |-> TRUE,
                 out |-> [i \in 1 .. r.count |-> <<RawByte(r.data, i, g), 0, 0, 0>>],
                 oob |-> r.oob \/ r.count > Len(r.data)]
           [] OTHER ->
                [ok |-> FALSE, out |-> [i \in 1 .. r.count |-> <<0, 0, 0, 0>>], oob |-> r.oob]

ReadAccessorU32(a, bufs, accessorIndex, g) ==
    U32From(AccessorAt(a, accessorIndex), IsAccessorValid(a, accessorIndex),
            ReadAccessor(a, bufs, accessorIndex, g), g)

\* The generic template at T = FVector2.
Vec2From(r) ==
    [ok |-> r.ok, out |-> [i \in 1 .. Len(r.out) |-> Floats(r.out[i])], oob |-> r.oob]

ReadAccessorVec2(a, bufs, accessorIndex, g) ==
    Vec2From(ReadAccessorTyped(a, bufs, accessorIndex, 8, g))

LE4(n) == <<n % 256, (n \div 256) % 256, 0, 0>>

\* A texture reference of a material, when it has a value.
Pick(new, old) == IF new # -1 THEN new ELSE old

\* LoadMaterial: material is the mesh's material as the call finds it.
LoadMaterialFrom(gltfMaterial, material) ==
    [ok |-> TRUE,
     material |->
        [baseColorTextureIndex |->
            Pick(gltfMaterial.baseColorTexture, material.baseColorTextureIndex),
         metallicRoughnessTextureIndex |->
            Pick(gltfMaterial.metallicRoughnessTexture, material.metallicRoughnessTextureIndex),
         normalTextureIndex |-> Pick(gltfMaterial.normalTexture, material.normalTextureIndex),
         occlusionTextureIndex |->
            Pick(gltfMaterial.occlusionTexture, material.occlusionTextureIndex),
         emissiveTextureIndex |->
            Pick(gltfMaterial.emissiveTexture, material.emissiveTextureIndex)],
     result |-> ClearResult]

LoadMaterial(a, materialIndex, material) ==
    IF materialIndex < 0 \/ materialIndex >= Len(a.materials)
    THEN [ok |-> FALSE, material |-> material,
          result |-> SetError("MissingRequiredData", "Material index out of range", -1)]
    ELSE LoadMaterialFrom(At(a.materials, materialIndex), material)

HasAttribute(primitive, name) == name \in DOMAIN primitive.attributes

PrimitiveFailed(result, oob) ==
    [ok |-> FALSE, mesh |-> DefaultMesh, result |-> result, skinning |-> FALSE, oob |-> oob]

\* An optional attribute that applies only if its count is the vertex count.
Applies(r, vertexCount) == r.ok /\ Len(r.out) = vertexCount

\* The body of LoadMeshPrimitive once POSITION is read, on a fresh
\* GLTFMesh, given what the reads of the other attributes returned.
BuildMesh(primitive, vertexCount, positions, normals, texCoords, tangents, colors, joints, weights, indices) ==
    [ok |-> TRUE,
     mesh |->
        [DefaultMesh EXCEPT
           !.vertices =
              [i \in 1 .. vertexCount |->
                 [position |-> positions.out[i],
                  normal |-> IF Applies(normals, vertexCount)
                             THEN normals.out[i] ELSE DefaultVertex.normal,
                  uv |-> IF Applies(texCoords, vertexCount)
                         THEN texCoords.out[i] ELSE DefaultVertex.uv,
                  tangent |-> IF Applies(tangents, vertexCount)
                              THEN tangents.out[i] ELSE DefaultVertex.tangent,
                  color0 |-> IF Applies(colors, vertexCount)
                             THEN colors.out[i] ELSE DefaultVertex.color0,
                  boneIndices |->
                     IF Applies(joints, vertexCount) /\ Applies(weights, vertexCount)
                     THEN joints.out[i] ELSE DefaultVertex.boneIndices,
                  boneWeights |->
                     IF Applies(joints, vertexCount) /\ Applies(weights, vertexCount)
                     THEN weights.out[i] ELSE DefaultVertex.boneWeights]],
           !.indices = IF primitive.indicesAccessor # -1
                       THEN (IF indices.ok THEN indices.out ELSE <<>>)
                       ELSE [i \in 1 .. vertexCount |-> LE4(i - 1)]],
     result |-> ClearResult,
     skinning |-> HasAttribute(primitive, "JOINTS_0") /\ HasAttribute(primitive, "WEIGHTS_0"),
     oob |-> positions.oob \/ normals.oob \/ texCoords.oob \/ tangents.oob
             \/ colors.oob \/ joints.oob \/ weights.oob \/ indices.oob]

\* WEIGHTS_0 is read only after JOINTS_0 has been.
WithJoints(a, bufs, primitive, g, positions, joints) ==
    BuildMesh(primitive, Len(positions.out), positions,
        IF HasAttribute(primitive, "NORMAL")
        THEN ReadAccessorVec3(a, bufs, primitive.attributes.NORMAL, g) ELSE NoRead,
        IF HasAttribute(primitive, "TEXCOORD_0")
        THEN ReadAccessorVec2(a, bufs, primitive.attributes.TEXCOORD_0, g) ELSE NoRead,
        IF HasAttribute(primitive, "TANGENT")
        THEN ReadAccessorVec4(a, bufs, primitive.attributes.TANGENT, g) ELSE NoRead,
        IF HasAttribute(primitive, "COLOR_0")
        THEN ReadAccessorVec4(a, bufs, primitive.attributes.COLOR_0, g) ELSE NoRead,
        joints,
        IF HasAttribute(primitive, "JOINTS_0") /\ HasAttribute(primitive, "WEIGHTS_0") /\ joints.ok
        THEN ReadAccessorVec4(a, bufs, primitive.attributes.WEIGHTS_0, g) ELSE NoRead,
        IF primitive.indicesAccessor # -1
        THEN ReadAccessorU32(a, bufs, primitive.indicesAccessor, g) ELSE NoRead)

WithPositions(a, bufs, primitive, g, positions) ==
    IF ~positions.ok
    THEN PrimitiveFailed(SetError("ValidationFailure", "Failed to read POSITION accessor", -1),
                         positions.oob)
    ELSE WithJoints(a, bufs, primitive, g, positions,
            IF HasAttribute(primitive, "JOINTS_0") /\ HasAttribute(primitive, "WEIGHTS_0")
            THEN ReadAccessorU32(a, bufs, primitive.attributes.JOINTS_0, g) ELSE NoRead)

\* A LoadMeshPrimitive for which a primitive without POSITION is an empty mesh.
LoadMeshPrimitiveWithoutCheck(a, bufs, primitive, g) ==
    IF ~HasAttribute(primitive, "POSITION")
    THEN [ok |-> TRUE, mesh |-> DefaultMesh, result |-> ClearResult, skinning |-> FALSE, oob |-> FALSE]
    ELSE WithPositions(a, bufs, primitive, g,
                       ReadAccessorVec3(a, bufs, primitive.attributes.POSITION, g))

\* LoadMeshPrimitive on a fresh GLTFMesh.  skinning: whether the call set
\* hasSkinning; oob: whether one of its reads left its buffer.
LoadMeshPrimitive(a, bufs, primitive, g) ==
    IF ~HasAttribute(primitive, "POSITION")
    THEN PrimitiveFailed(SetError("MissingRequiredData",
                                  "Mesh primitive missing POSITION attribute", -1), FALSE)
    ELSE WithPositions(a, bufs, primitive, g,
                       ReadAccessorVec3(a, bufs, primitive.attributes.POSITION, g))

\* The primitives of all meshes, in the order ProcessMeshes visits them.
RECURSIVE AllPrimitives(_, _)
AllPrimitives(meshes, k) ==
    IF k > Len(meshes) THEN <<>> ELSE meshes[k].primitives \o AllPrimitives(meshes, k + 1)

\* The body of the loop of ProcessMeshes for one primitive, given what
\* LoadMeshPrimitive and LoadMaterial return; st carries scene.meshes,
\* lastError, hasSkinning and whether a read went out of bounds.
AfterPrimitive(st, primitive, loaded, mat) ==
    IF ~loaded.ok
    THEN [st EXCEPT !.lastError = loaded.result, !.oob = st.oob \/ loaded.oob]
    ELSE [st EXCEPT
            !.meshes = Append(st.meshes,
                 IF primitive.materialIndex # -1
                 THEN [loaded.mesh EXCEPT !.material = mat.material,
                                          !.materialIndex = primitive.materialIndex]
                 ELSE loaded.mesh),
            !.lastError = IF primitive.materialIndex # -1 THEN mat.result ELSE loaded.result,
            !.hasSkinning = st.hasSkinning \/ loaded.skinning,
            !.oob = st.oob \/ loaded.oob]

\* The loop of ProcessMeshes from primitive k on.
RECURSIVE MeshLoop(_, _, _, _, _)
MeshLoop(a, bufs, prims, k, st) ==
    IF k > Len(prims) THEN st
    ELSE MeshLoop(a, bufs, prims, k + 1,
            AfterPrimitive(st, prims[k], LoadMeshPrimitive(a, bufs, prims[k], st.g),
                           LoadMaterial(a, prims[k].materialIndex, DefaultMaterial)))

(***************************************************************************)
(* The node, skin and animation stages, as functions of the parsed asset   *)
(* and of the scene they find.                                             *)
(***************************************************************************)
Indices(seq) == [i \in 1 .. Len(seq) |-> i - 1]

InSeq(x, seq) == \E k \in 1 .. Len(seq) : seq[k] = x

Max(S) == CHOOSE x \in S : \A y \in S : y <= x

\* ProcessNodes: both passes and the search for roots.
ProcessNodesOn(a, sc) ==
    LET n == Len(a.nodes)
        resized == Resize(sc.nodes, n, DefaultNode)
        parents(c) == {i \in 0 .. n - 1 : InSeq(c, At(a.nodes, i).children)}
        nodes == [k \in 1 .. n |->
                    [resized[k] EXCEPT
                        !.transform = a.nodes[k].transform,
                        !.meshIndex = a.nodes[k].meshIndex,
                        !.skinIndex = a.nodes[k].skinIndex,
                        !.childIndices = @ \o a.nodes[k].children,
                        !.parentIndex = IF parents(k - 1) = {} THEN @ ELSE Max(parents(k - 1))]]
        isRoot(i) == At(nodes, i).parentIndex = -1
    IN  [sc EXCEPT !.nodes = nodes,
                   !.rootNodeIndices = @ \o SelectSeq(Indices(nodes), isRoot)]

\* ProcessSkins.  A node named by several joints keeps what the last
\* assignment gave it.
ProcessSkinsOn(a, sc, bufs, g) ==
    LET n == Len(a.skins)
        resized == Resize(sc.skins, n, DefaultSkin)
        ibm(i) == IF a.skins[i].inverseBindMatrices # -1
                  THEN ReadAccessorTyped(a, bufs, a.skins[i].inverseBindMatrices, 64, g)
                  ELSE NoRead
        skin(i) ==
            [jointIndices |-> a.skins[i].joints,
             inverseBindMatrices |->
                IF ibm(i).ok
                THEN [j \in 1 .. Len(ibm(i).out) |-> <<Factor("mat", IdentityTRS, ibm(i).out[j])>>]
                ELSE resized[i].inverseBindMatrices,
             skeletonRootIndex |->
                IF a.skins[i].skeleton # -1 THEN a.skins[i].skeleton
                ELSE resized[i].skeletonRootIndex]
        hits(node) == UNION {{<<i, j>> : j \in {j \in 0 .. Len(a.skins[i].joints) - 1 :
                                                    At(a.skins[i].joints, j) = node}} :
                             i \in 1 .. n}
        last(node) == CHOOSE h \in hits(node) :
                        \A o \in hits(node) : o[1] < h[1] \/ (o[1] = h[1] /\ o[2] <= h[2])
    IN  [scene |->
            [sc EXCEPT
                !.skins = [i \in 1 .. n |-> skin(i)],
                !.nodes = [k \in 1 .. Len(sc.nodes) |->
                             IF hits(k - 1) = {} THEN sc.nodes[k]
                             ELSE [sc.nodes[k] EXCEPT !.isBone = TRUE,
                                                      !.boneIndex = last(k - 1)[2]]]],
         oob |-> \E i \in 1 .. n : ibm(i).oob]

\* Floats that are not negative are ordered as their bit patterns.
FloatValue(f) == <<f[4], f[3], f[2], f[1]>>

FloatLess(x, y) ==
    \E k \in 1 .. 4 :
        /\ FloatValue(x)[k] < FloatValue(y)[k]
        /\ \A j \in 1 .. k - 1 : FloatValue(x)[j] = FloatValue(y)[j]

FloatMax(x, y) == IF FloatLess(x, y) THEN y ELSE x

\* The sampler loop of ConvertGLTFAnimation from sampler k on; st carries
\* maxTime, success, result and whether a read went out of bounds.
RECURSIVE SamplerLoop(_, _, _, _, _, _)
SamplerLoop(a, bufs, samplers, k, st, g) ==
    IF k > Len(samplers) THEN st
    ELSE LET times == ReadAccessorTyped(a, bufs, samplers[k].inputAccessor, 4, g)
             next == IF times.ok /\ Len(times.out) > 0
                     THEN [st EXCEPT !.maxTime = FloatMax(@, times.out[Len(times.out)])]
                     ELSE IF Len(times.out) = 0
                     THEN [st EXCEPT
                             !.success = FALSE,
                             !.result = SetError("AnimationError",
                                          "Missing keyframe times for animation sampler", -1)]
                     ELSE st
         IN  SamplerLoop(a, bufs, samplers, k + 1, [next EXCEPT !.oob = @ \/ times.oob], g)

\* ConvertGLTFAnimation: the animation, whether it succeeded, the result.
ConvertGLTFAnimation(a, bufs, gltfAnim, nodeCount, g) ==
    LET st == SamplerLoop(a, bufs, gltfAnim.samplers, 1,
                          [maxTime |-> F32(0), success |-> TRUE, result |-> ClearResult,
                           oob |-> FALSE], g)
    IN  [outAnim |->
            [samplers |-> [k \in 1 .. Len(gltfAnim.samplers) |->
                             [inputAccessorIndex |-> gltfAnim.samplers[k].inputAccessor,
                              outputAccessorIndex |-> gltfAnim.samplers[k].outputAccessor,
                              interpolation |-> gltfAnim.samplers[k].interpolation]],
             channels |-> [k \in 1 .. Len(gltfAnim.channels) |->
                             [samplerIndex |-> gltfAnim.channels[k].samplerIndex,
                              targetNodeIndex |->
                                 IF gltfAnim.channels[k].nodeIndex < nodeCount
                                 THEN gltfAnim.channels[k].nodeIndex ELSE -1,
                              targetPath |-> gltfAnim.channels[k].path]],
             duration |-> st.maxTime],
         success |-> st.success, result |-> st.result, oob |-> st.oob]

\* The loop of ProcessAnimations from animation k on; st carries
\* scene.animations, modelAnimations, lastError and success.
RECURSIVE AnimationLoop(_, _, _, _, _, _)
AnimationLoop(a, bufs, k, nodeCount, st, g) ==
    IF k > Len(a.animations) THEN st
    ELSE LET conv == ConvertGLTFAnimation(a, bufs, a.animations[k], nodeCount, g)
             base == [st EXCEPT !.animations[k] = conv.outAnim,
                                !.lastError = conv.result,
                                !.oob = @ \/ conv.oob]
         IN  IF ~conv.success
             THEN AnimationLoop(a, bufs, k + 1, nodeCount, [base EXCEPT !.success = FALSE], g)
             ELSE AnimationLoop(a, bufs, k + 1, nodeCount,
                    [base EXCEPT !.modelAnimations[k] =
                        [filled |-> TRUE, duration |-> conv.outAnim.duration, framerate |-> 30]], g)

(***************************************************************************)
(* ValidateModel and its parts (model_gltf_helpers.cpp).                   *)
(***************************************************************************)
maxVertexCount == 1000000

\* The index a validation loop stops at: the first of the bad ones, or -1.
FirstBad(badIndices) ==
    IF badIndices = {} THEN -1
    ELSE CHOOSE i \in badIndices : \A j \in badIndices : i <= j

\* A buffer check that compares the number of buffers only, never their sizes.
ValidateBuffersCountOnly(a, bufs) ==
    IF Len(bufs) # Len(a.buffers)
    THEN Ret(FALSE, SetError("ValidationFailure", "Buffer count mismatch", -1))
    ELSE Ret(TRUE, ClearResult)

\* ValidateBuffers.  sizeof(FGLTFVertex) is at least the 60 bytes of the
\* members the struct adds to its base.
ValidateBuffers(a, bufs) ==
    IF Len(bufs) # Len(a.buffers)
    THEN Ret(FALSE, SetError("ValidationFailure", "Buffer count mismatch", -1))
    ELSE LET mismatch(i) == Len(At(bufs, i)) # At(a.buffers, i).byteLength
             tooLarge(i) == Len(At(bufs, i)) > maxVertexCount * 60
             bad(i) == mismatch(i) \/ tooLarge(i)
             i == FirstBad({x \in 0 .. Len(bufs) - 1 : bad(x)})
         IN  IF i = -1 THEN Ret(TRUE, ClearResult)
             ELSE IF mismatch(i)
             THEN Ret(FALSE, SetError("ValidationFailure", "Buffer size mismatch", -1))
             ELSE Ret(FALSE, SetError("ValidationFailure", "Buffer too large", -1))

ValidateAccessors(a, bufs) ==
    LET view(i) == At(a.bufferViews, At(a.accessors, i).bufferViewIndex)
        hasView(i) == At(a.accessors, i).bufferViewIndex # -1
        badView(i) == hasView(i) /\ At(a.accessors, i).bufferViewIndex >= Len(a.bufferViews)
        badBuffer(i) == hasView(i) /\ ~badView(i) /\ view(i).bufferIndex >= Len(bufs)
        exceeds(i) ==
            /\ hasView(i) /\ ~badView(i) /\ ~badBuffer(i)
            /\ view(i).byteOffset + At(a.accessors, i).byteOffset
                 + At(a.accessors, i).count
                     * ElementByteSize(At(a.accessors, i).type, At(a.accessors, i).componentType)
               > Len(At(bufs, view(i).bufferIndex))
        bad(i) == badView(i) \/ badBuffer(i) \/ exceeds(i)
        i == FirstBad({x \in 0 .. Len(a.accessors) - 1 : bad(x)})
    IN  IF i = -1 THEN Ret(TRUE, ClearResult)
        ELSE IF badView(i)
        THEN Ret(FALSE, SetError("ValidationFailure", "Accessor references invalid buffer view", -1))
        ELSE IF badBuffer(i)
        THEN Ret(FALSE, SetError("ValidationFailure", "Buffer view references invalid buffer", -1))
        ELSE Ret(FALSE, SetError("ValidationFailure", "Accessor exceeds buffer bounds", -1))

\* detectCycle of ValidateNodes; st holds the sets visited and inPath.
RECURSIVE detectCycle(_, _, _)
RECURSIVE detectCycleChildren(_, _, _, _)
detectCycle(nodes, nodeIndex, st) ==
    IF nodeIndex < 0 \/ nodeIndex >= Len(nodes) THEN [found |-> FALSE, st |-> st]
    ELSE IF nodeIndex \in st.inPath THEN [found |-> TRUE, st |-> st]
    ELSE IF nodeIndex \in st.visited THEN [found |-> FALSE, st |-> st]
    ELSE LET entered == [visited |-> st.visited \cup {nodeIndex},
                         inPath |-> st.inPath \cup {nodeIndex}]
             r == detectCycleChildren(nodes, At(nodes, nodeIndex).childIndices, 1, entered)
         IN  IF r.found THEN r
             ELSE [found |-> FALSE, st |-> [r.st EXCEPT !.inPath = @ \ {nodeIndex}]]

detectCycleChildren(nodes, children, k, st) ==
    IF k > Len(children) THEN [found |-> FALSE, st |-> st]
    ELSE LET r == detectCycle(nodes, children[k], st)
         IN  IF r.found THEN r ELSE detectCycleChildren(nodes, children, k + 1, r.st)

\* The loop of ValidateNodes over the nodes, from node i on.
RECURSIVE HasCycleFrom(_, _, _)
HasCycleFrom(nodes, i, st) ==
    IF i >= Len(nodes) THEN FALSE
    ELSE IF i \in st.visited THEN HasCycleFrom(nodes, i + 1, st)
    ELSE LET r == detectCycle(nodes, i, st)
         IN  r.found \/ HasCycleFrom(nodes, i + 1, r.st)

ValidateNodes(a, sc) ==
    IF Len(sc.nodes) # Len(a.nodes)
    THEN Ret(FALSE, SetError("ValidationFailure", "Node count mismatch", -1))
    ELSE IF HasCycleFrom(sc.nodes, 0, [visited |-> {}, inPath |-> {}])
    THEN Ret(FALSE, SetError("ValidationFailure", "Cycle detected in node hierarchy", -1))
    ELSE Ret(TRUE, ClearResult)

AnimationPaths == {"translation", "rotation", "scale", "weights"}

ValidateAnimationData(anim, nodeCount) ==
    IF Len(anim.samplers) = 0 /\ Len(anim.channels) # 0
    THEN Ret(FALSE, SetError("AnimationError", "Animation has channels but no samplers", -1))
    ELSE LET badSampler(k) == anim.channels[k + 1].samplerIndex < 0
                              \/ anim.channels[k + 1].samplerIndex >= Len(anim.samplers)
             badNode(k) == anim.channels[k + 1].targetNodeIndex < 0
                           \/ anim.channels[k + 1].targetNodeIndex >= nodeCount
             badPath(k) == anim.channels[k + 1].targetPath \notin AnimationPaths
             bad(k) == badSampler(k) \/ badNode(k) \/ badPath(k)
             k == FirstBad({x \in 0 .. Len(anim.channels) - 1 : bad(x)})
         IN  IF k = -1 THEN Ret(TRUE, ClearResult)
             ELSE IF badSampler(k)
             THEN Ret(FALSE, SetError("AnimationError", "Animation channel references invalid sampler", -1))
             ELSE IF badNode(k)
             THEN Ret(FALSE, SetError("AnimationError", "Animation channel targets invalid node", -1))
             ELSE Ret(FALSE, SetError("AnimationError", "Invalid animation target path", -1))

ValidateAnimations(sc) ==
    LET bad(k) == ~ValidateAnimationData(sc.animations[k + 1], Len(sc.nodes)).ret
        k == FirstBad({x \in 0 .. Len(sc.animations) - 1 : bad(x)})
    IN  IF k = -1 THEN Ret(TRUE, ClearResult)
        ELSE ValidateAnimationData(sc.animations[k + 1], Len(sc.nodes))

ValidateMaterials(sc, texs) ==
    LET outOfBounds(index) == index >= 0 /\ index >= Len(texs)
        bad(k) == LET material == sc.meshes[k + 1].material IN
                  \/ outOfBounds(material.baseColorTextureIndex)
                  \/ outOfBounds(material.metallicRoughnessTextureIndex)
                  \/ outOfBounds(material.normalTextureIndex)
                  \/ outOfBounds(material.occlusionTextureIndex)
                  \/ outOfBounds(material.emissiveTextureIndex)
    IN  IF FirstBad({x \in 0 .. Len(sc.meshes) - 1 : bad(x)}) = -1 THEN Ret(TRUE, ClearResult)
        ELSE Ret(FALSE, SetError("ValidationFailure", "Material texture index out of bounds", -1))

ValidateModel(a, bufs, sc, texs, skinning) ==
    IF ~a.present THEN Ret(FALSE, SetError("ValidationFailure", "No asset loaded", -1))
    ELSE IF ~ValidateBuffers(a, bufs).ret THEN ValidateBuffers(a, bufs)
    ELSE IF ~ValidateAccessors(a, bufs).ret THEN ValidateAccessors(a, bufs)
    ELSE IF ~ValidateNodes(a, sc).ret THEN ValidateNodes(a, sc)
    ELSE IF skinning /\ ~ValidateAnimations(sc).ret THEN ValidateAnimations(sc)
    ELSE IF ~ValidateMaterials(sc, texs).ret THEN ValidateMaterials(sc, texs)
    ELSE Ret(TRUE, ClearResult)

(***************************************************************************)
(* The inputs of SniffSpec.                                                *)
(***************************************************************************)
BraceAlphabet == {123, 125, 34, 92, 97}     \* { } " \ a

SeqsUpTo(S, n) == UNION {[1 .. k -> S] : k \in 0 .. n}

Filler(n) == [i \in 1 .. n |-> 32]

Buf(bytes, tail) == [null |-> FALSE, bytes |-> bytes, tail |-> tail]

NullBuf == [null |-> TRUE, bytes |-> <<>>, tail |-> <<0>>]

TextInputs == {Buf(t, <<0>>) : t \in SeqsUpTo(BraceAlphabet, MaxTextLen)}

\* JSON documents around the 20-byte limit: an optional lead before the brace,
\* each key present or not, a separator between them, n bytes of filler.
JsonDocs ==
    {lead \o <<123>> \o k1 \o sep \o k2 \o Filler(n) \o <<125>> :
        lead \in {<<>>, <<32>>, <<10, 32>>, <<97>>},
        k1 \in {AssetKey, <<>>}, sep \in {<<58>>, <<0>>},
        k2 \in {VersionKey, <<>>}, n \in 0 .. MaxFill}

JsonInputs == {Buf(d, tail) : d \in JsonDocs, tail \in {<<0>>, VersionKey \o <<0>>}}

TotalLengths == {U32(12), U32(20), U32(24), U32(28), U32(40), U32(1024), <<65535, 65535>>}

ChunkLengths ==
    {U32(0), U32(4), U32(8), U32(16), <<65535, 65516>>, <<65535, 65520>>, <<65535, 65535>>}

GlbBytes(magic, version, total, chunkLength, chunkType, words) ==
    SubSeq(U32Bytes(magic) \o U32Bytes(version) \o U32Bytes(total)
             \o U32Bytes(chunkLength) \o U32Bytes(chunkType)
             \o [i \in 1 .. 4 * MaxPadWords |-> 0],
           1, 12 + 4 * words)

GlbInputs ==
    {Buf(GlbBytes(magic, version, total, chunkLength, chunkType, words), <<0>>) :
        magic \in {GLBMagic, <<17972, 27752>>}, version \in {GLBVersion, U32(1)},
        total \in TotalLengths, chunkLength \in ChunkLengths,
        chunkType \in {JSONChunkType, <<78, 18754>>}, words \in 0 .. MaxPadWords}

SniffInputs == {NullBuf} \cup TextInputs \cup JsonInputs \cup GlbInputs

NoCall == [fn |-> "none", ret |-> FALSE, result |-> ClearResult]

Called(fn, r) == [fn |-> fn, ret |-> r.ret, result |-> r.result]

(***************************************************************************)
(* SniffSpec: one call of one of the four functions on one input.          *)
(***************************************************************************)
SniffInit == sBuf \in SniffInputs /\ sRes = NoCall /\ ModelInit

CallIsGLTFFile ==
    /\ sRes.fn = "none"
    /\ sRes' = Called("IsGLTFFile", IsGLTFFile(sBuf, ClearResult))
    /\ UNCHANGED <<sBuf, modelVars>>

CallIsGLBFile ==
    /\ sRes.fn = "none"
    /\ sRes' = Called("IsGLBFile", IsGLBFile(sBuf, ClearResult))
    /\ UNCHANGED <<sBuf, modelVars>>

CallValidateGLTFBuffer ==
    /\ sRes.fn = "none"
    /\ sRes' = Called("ValidateGLTFBuffer", ValidateGLTFBuffer(sBuf))
    /\ UNCHANGED <<sBuf, modelVars>>

CallValidateGLBHeader ==
    /\ sRes.fn = "none"
    /\ sRes' = Called("ValidateGLBHeader", ValidateGLBHeader(sBuf))
    /\ UNCHANGED <<sBuf, modelVars>>

SniffNext ==
    \/ CallIsGLTFFile
    \/ CallIsGLBFile
    \/ CallValidateGLTFBuffer
    \/ CallValidateGLBHeader

SniffSpec == SniffInit /\ [][SniffNext]_vars

(***************************************************************************)
(* Claims about the sniffers.                                              *)
(***************************************************************************)
\* The header fields of a GLB input of at least 20 bytes.
HasGLBStart(b) ==
    /\ ~b.null
    /\ Len(b.bytes) >= 12
    /\ ReadU32(b.bytes, 0) = GLBMagic
    /\ ReadU32(b.bytes, 1) = GLBVersion

WellFormedGLBHeader(b) ==
    /\ HasGLBStart(b)
    /\ Len(b.bytes) >= 20
    /\ ReadU32(b.bytes, 4) = JSONChunkType

\* a + n > b for the unbounded sum of a uint32_t a and a small natural n.
SumExceeds(a, n, b) ==
    LET lo == a[2] + n
        hi == a[1] + (lo \div 65536)
    IN  hi >= 65536 \/ U32Gt(<<hi, lo % 65536>>, b)

\* C2: ValidateGLBHeader returns ok only if the first chunk's declared length
\* plus the 20 bytes of header overhead does not exceed the declared total
\* length, the sum taken in the integers (no 32-bit wrap-around).
C2_ChunkFitsTotalLength ==
    (sRes.fn = "ValidateGLBHeader" /\ sRes.ret)
        => ~SumExceeds(ReadU32(sBuf.bytes, 3), 20, ReadU32(sBuf.bytes, 2))

RECURSIVE DepthsFrom(_, _, _, _, _)
DepthsFrom(bytes, i, depth, inString, escaped) ==
    IF i > Len(bytes) THEN <<>>
    ELSE LET c == bytes[i]
             d == IF inString THEN depth
                  ELSE IF c = 123 THEN depth + 1
                  ELSE IF c = 125 THEN depth - 1
                  ELSE depth
             s == IF inString THEN escaped \/ c # 34 ELSE c = 34
             e == inString /\ ~escaped /\ c = 92
         IN  <<d>> \o DepthsFrom(bytes, i + 1, d, s, e)

Depths(bytes) == DepthsFrom(bytes, 1, 0, FALSE, FALSE)

BalancedBraces(bytes) ==
    LET d == Depths(bytes)
    IN  (\A i \in 1 .. Len(d) : d[i] >= 0) /\ (Len(d) > 0 => d[Len(d)] = 0)

HasUnmatchedClose(bytes) == \E i \in 1 .. Len(bytes) : Depths(bytes)[i] < 0

FirstUnmatchedClose(bytes) ==
    CHOOSE i \in 1 .. Len(bytes) :
        /\ Depths(bytes)[i] < 0
        /\ \A j \in 1 .. i - 1 : Depths(bytes)[j] >= 0

\* C9: ValidateGLTFBuffer succeeds on every non-empty input whose braces
\* outside quoted strings are balanced, and on an input with an unmatched
\* closing brace it fails with invalid-format at that brace's byte offset.
C9_BraceValidation ==
    (sRes.fn = "ValidateGLTFBuffer" /\ ~sBuf.null) =>
        /\ (Len(sBuf.bytes) > 0 /\ BalancedBraces(sBuf.bytes)) => sRes.ret
        /\ HasUnmatchedClose(sBuf.bytes) =>
              /\ ~sRes.ret
              /\ sRes.result.error = "InvalidFormat"
              /\ sRes.result.errorLine = FirstUnmatchedClose(sBuf.bytes) - 1

JsonWhitespace == {32, 9, 10, 13}

FirstNonWhitespaceIsBrace(bytes) ==
    \E i \in 1 .. Len(bytes) :
        /\ bytes[i] = 123
        /\ \A j \in 1 .. i - 1 : bytes[j] \in JsonWhitespace

\* C10: IsGLTFFile returns true if and only if the buffer has at least 20
\* bytes, its first non-whitespace byte is the opening brace and it contains
\* both the "asset" and the "version" key.
C10_JsonDetection ==
    (sRes.fn = "IsGLTFFile") =>
        (sRes.ret <=> (/\ ~sBuf.null
                       /\ Len(sBuf.bytes) >= 20
                       /\ FirstNonWhitespaceIsBrace(sBuf.bytes)
                       /\ Contains(sBuf.bytes, AssetKey)
                       /\ Contains(sBuf.bytes, VersionKey)))


\* C11: IsGLBFile returns true exactly for the buffers of at least 12 bytes
\* that start with the magic 0x46546C67, whatever their version and
\* declared-length fields hold.
C11_GLBDetectionByMagicOnly ==
    (sRes.fn = "IsGLBFile") =>
        (sRes.ret <=> (/\ ~sBuf.null
                       /\ Len(sBuf.bytes) >= 12
                       /\ ReadU32(sBuf.bytes, 0) = GLBMagic))


(***************************************************************************)
(* Spec: the life of one FGLTFModel instance.                              *)
(***************************************************************************)
GoodGLB == Buf(GlbBytes(GLBMagic, GLBVersion, U32(28), U32(8), JSONChunkType, 4), <<0>>)

\* Declares 40 bytes, holds 28.
TruncatedGLB == Buf(GlbBytes(GLBMagic, GLBVersion, U32(40), U32(8), JSONChunkType, 4), <<0>>)

\* Declares 40 bytes, holds 16.
ShortTruncatedGLB == Buf(GlbBytes(GLBMagic, GLBVersion, U32(40), U32(8), JSONChunkType, 1), <<0>>)

BadChunkGLB == Buf(GlbBytes(GLBMagic, GLBVersion, U32(28), U32(8), <<78, 18754>>, 4), <<0>>)

GoodJSON == Buf(<<123>> \o AssetKey \o <<58>> \o VersionKey \o Filler(2) \o <<125>>, <<0>>)

LeadingSpaceJSON == Buf(<<32>> \o GoodJSON.bytes, <<0>>)

UnbalancedJSON == Buf(<<123>> \o AssetKey \o <<58>> \o VersionKey \o <<123>> \o Filler(2), <<0>>)

LoadBuffers ==
    {GoodGLB, TruncatedGLB, ShortTruncatedGLB, BadChunkGLB, GoodJSON, LeadingSpaceJSON,
     UnbalancedJSON, NullBuf}

LoadArgs ==
    {[path |-> "models/a.gltf", buffer |-> b] : b \in LoadBuffers}
        \cup {[path |-> "null", buffer |-> GoodGLB]}

\* Bytes a read outside its buffer may find.
GarbageBytes == {0, 255}

Init == sBuf = NullBuf /\ sRes = NoCall /\ ModelInit

\* LoadWithOptions returns: ok is its return value.
Return(ok) ==
    /\ pc' = "idle"
    /\ lastReturn' = IF ok THEN "true" ELSE "false"
    /\ callArgs' = NoArgs

\* The process dies: a read outside a buffer, or the call stack overflows.
Crash == pc' = "crashed" /\ UNCHANGED <<lastReturn, callArgs>>

\* LoadWithOptions up to the try block (Load passes the instance's options).
LoadWithOptions ==
    /\ pc = "idle"
    /\ loads < MaxLoads
    /\ \E args \in LoadArgs, options \in BOOLEAN :
        /\ callArgs' = args
        /\ validateOnLoad' = options
    /\ loads' = loads + 1
    /\ lastError' = ClearResult
    /\ isValid' = FALSE
    /\ parserInvoked' = FALSE
    /\ pc' = "detect"
    /\ UNCHANGED <<sniffVars, playVars, lastReturn, asset, buffers, textures, scene, modelAnimations,
                   hasSkinning, basePose, boneMatrices, stack, rootCursor>>

\* The pre-validation block: "ok", or the result the call fails with.
PreValidate(b) ==
    LET glb == IsGLBFile(b, ClearResult)
        gltf == IsGLTFFile(b, glb.result)
    IN  IF glb.ret
        THEN (IF ValidateGLBHeader(b).ret THEN Ret(TRUE, ClearResult) ELSE ValidateGLBHeader(b))
        ELSE IF gltf.ret
        THEN (IF ValidateGLTFBuffer(b).ret THEN Ret(TRUE, ClearResult) ELSE ValidateGLTFBuffer(b))
        ELSE Ret(FALSE, gltf.result)

\* The format decision: the parser to call ("none": unrecognized) and lastError.
DetermineFormat(b, result) ==
    LET glb == IsGLBFile(b, result)
        gltf == IsGLTFFile(b, glb.result)
    IN  IF glb.ret THEN [format |-> "LoadGLB", result |-> glb.result]
        ELSE IF gltf.ret THEN [format |-> "LoadGLTF", result |-> gltf.result]
        ELSE [format |-> "none",
              result |-> IF gltf.result.error = "None"
                         THEN SetError("InvalidFormat", "Unrecognized glTF/GLB format", -1)
                         ELSE gltf.result]

\* LoadWithOptions from the parameter check to the call of the parser.
DetectFormat ==
    /\ pc = "detect"
    /\ LET b == callArgs.buffer
           pre == PreValidate(b)
           det == DetermineFormat(b, lastError)
       IN  IF callArgs.path = "null" \/ b.null \/ Len(b.bytes) <= 0
           THEN lastError' = SetError("InvalidFormat", "Invalid input parameters", -1) /\ Return(FALSE)
           ELSE IF validateOnLoad /\ ~pre.ret
           THEN lastError' = pre.result /\ Return(FALSE)
           ELSE IF det.format = "none"
           THEN lastError' = det.result /\ Return(FALSE)
           ELSE /\ lastError' = det.result
                /\ pc' = det.format
                /\ UNCHANGED <<lastReturn, callArgs>>
    /\ UNCHANGED <<sniffVars, playVars, loads, parserInvoked, isValid, validateOnLoad, asset, buffers,
                   textures, scene, modelAnimations, hasSkinning, basePose, boneMatrices,
                   stack, rootCursor>>

\* The parser is fastgltf's: it fails, or hands back an asset.
Parse(message) ==
    /\ parserInvoked' = TRUE
    /\ \/ /\ lastError' = SetError("LibraryError", message, -1)
          /\ Return(FALSE)
          /\ UNCHANGED asset
       \/ /\ asset' \in Assets
          /\ pc' = "ProcessBuffers"
          /\ callArgs' = NoArgs
          /\ UNCHANGED <<lastError, lastReturn>>

LoadGLB ==
    /\ pc = "LoadGLB"
    /\ Parse("fastgltf GLB error")
    /\ UNCHANGED <<sniffVars, playVars, loads, isValid, validateOnLoad, buffers, textures, scene,
                   modelAnimations, hasSkinning, basePose, boneMatrices, stack, rootCursor>>

LoadGLTF ==
    /\ pc = "LoadGLTF"
    /\ Parse("fastgltf error")
    /\ UNCHANGED <<sniffVars, playVars, loads, isValid, validateOnLoad, buffers, textures, scene,
                   modelAnimations, hasSkinning, basePose, boneMatrices, stack, rootCursor>>

\* A stage after which the call goes straight to the transform pass.
GoOnToTransforms(oob, next) ==
    pc' = "ComputeNodeTransforms" /\ UNCHANGED <<lastReturn, callArgs>>

\* After a stage: the process may die if a read left its buffer, else the
\* call goes on at next.
GoOn(oob, next) ==
    \/ oob /\ Crash
    \/ pc' = next /\ UNCHANGED <<lastReturn, callArgs>>

ProcessBuffers ==
    /\ pc = "ProcessBuffers"
    /\ LET n == Len(asset.buffers)
           resized == Resize(buffers, n, <<>>)
           external == {i \in 1 .. n : asset.buffers[i].source = "uri"}
       IN  \E found \in SUBSET external :    \* the URIs LoadExternalBuffer resolves
              buffers' = [i \in 1 .. n |->
                            IF asset.buffers[i].source = "vector" \/ i \in found
                            THEN asset.buffers[i].bytes ELSE resized[i]]
    /\ pc' = "ProcessTextures"
    /\ UNCHANGED <<sniffVars, playVars, loads, lastReturn, callArgs, parserInvoked, isValid, lastError,
                   validateOnLoad, asset, textures, scene, modelAnimations, hasSkinning,
                   basePose, boneMatrices, stack, rootCursor>>

\* LoadTextureFromGLTF: found says whether the texture manager has the image.
LoadTextureFromGLTF(a, textureIndex, found, result) ==
    LET failed(message) ==
            [texture |-> "nullptr", result |-> SetError("TextureLoadFailure", message, -1)]
    IN  IF textureIndex < 0 \/ textureIndex >= Len(a.textures)
        THEN failed("Invalid texture index")
        ELSE IF At(a.textures, textureIndex).imageIndex = -1
        THEN failed("Texture has no image reference")
        ELSE IF At(a.textures, textureIndex).imageIndex >= Len(a.images)
        THEN failed("Texture references invalid image")
        ELSE IF At(a.images, At(a.textures, textureIndex).imageIndex).source = "uri"
        THEN (IF found THEN [texture |-> "texture", result |-> result]
              ELSE failed("Could not load texture"))
        ELSE failed("Image source not implemented")

RECURSIVE TextureLoop(_, _, _, _)
TextureLoop(a, k, found, st) ==
    IF k > Len(a.textures) THEN st
    ELSE LET t == LoadTextureFromGLTF(a, k - 1, k \in found, st.lastError)
         IN  TextureLoop(a, k + 1, found,
                         [textures |-> [st.textures EXCEPT ![k] = t.texture],
                          lastError |-> t.result])

ProcessTextures ==
    /\ pc = "ProcessTextures"
    /\ \E found \in SUBSET (1 .. Len(asset.textures)) :
         LET st == TextureLoop(asset, 1, found,
                               [textures |-> Resize(textures, Len(asset.textures), "nullptr"),
                                lastError |-> lastError])
         IN  textures' = st.textures /\ lastError' = st.lastError
    /\ pc' = "ProcessMaterials"
    /\ UNCHANGED <<sniffVars, playVars, loads, lastReturn, callArgs, parserInvoked, isValid,
                   validateOnLoad, asset, buffers, scene, modelAnimations, hasSkinning,
                   basePose, boneMatrices, stack, rootCursor>>

ProcessMaterials ==
    /\ pc = "ProcessMaterials"
    /\ pc' = "ProcessMeshes"
    /\ UNCHANGED <<sniffVars, playVars, loads, lastReturn, callArgs, parserInvoked, isValid, lastError,
                   validateOnLoad, asset, buffers, textures, scene, modelAnimations,
                   hasSkinning, basePose, boneMatrices, stack, rootCursor>>

ProcessMeshes ==
    /\ pc = "ProcessMeshes"
    /\ \E g \in GarbageBytes :
         LET st == MeshLoop(asset, buffers, AllPrimitives(asset.meshes, 1), 1,
                            [meshes |-> Resize(scene.meshes, Len(asset.meshes), DefaultMesh),
                             lastError |-> lastError, hasSkinning |-> hasSkinning,
                             oob |-> FALSE, g |-> g])
         IN  /\ scene' = [scene EXCEPT !.meshes = st.meshes]
             /\ lastError' = st.lastError
             /\ hasSkinning' = st.hasSkinning
             /\ GoOn(st.oob, "ProcessNodes")
    /\ UNCHANGED <<sniffVars, playVars, loads, parserInvoked, isValid, validateOnLoad, asset, buffers,
                   textures, modelAnimations, basePose, boneMatrices, stack, rootCursor>>

ProcessNodes ==
    /\ pc = "ProcessNodes"
    /\ scene' = ProcessNodesOn(asset, scene)
    /\ pc' = "ProcessSkins"
    /\ UNCHANGED <<sniffVars, playVars, loads, lastReturn, callArgs, parserInvoked, isValid, lastError,
                   validateOnLoad, asset, buffers, textures, modelAnimations, hasSkinning,
                   basePose, boneMatrices, stack, rootCursor>>

ProcessSkins ==
    /\ pc = "ProcessSkins"
    /\ \E g \in GarbageBytes :
         LET r == ProcessSkinsOn(asset, scene, buffers, g)
         IN  scene' = r.scene /\ GoOn(r.oob, "ProcessAnimations")
    /\ UNCHANGED <<sniffVars, playVars, loads, parserInvoked, isValid, lastError, validateOnLoad, asset,
                   buffers, textures, modelAnimations, hasSkinning, basePose, boneMatrices,
                   stack, rootCursor>>

\* ProcessAnimations; when it returns false ProcessAsset does, and
\* LoadWithOptions fails with the error it finds in lastError.
ProcessAnimations ==
    /\ pc = "ProcessAnimations"
    /\ \E g \in GarbageBytes :
         LET n == Len(asset.animations)
             st == AnimationLoop(asset, buffers, 1, Len(scene.nodes),
                     [animations |-> Resize(scene.animations, n, DefaultAnimation),
                      modelAnimations |-> Resize(modelAnimations, n, DefaultModelAnim),
                      lastError |-> lastError, success |-> TRUE, oob |-> FALSE], g)
         IN  /\ scene' = [scene EXCEPT !.animations = st.animations]
             /\ modelAnimations' = st.modelAnimations
             /\ \/ st.oob /\ Crash /\ lastError' = st.lastError
                \/ /\ st.success
                   /\ lastError' = st.lastError
                   /\ pc' = "ComputeNodeTransforms"
                   /\ UNCHANGED <<lastReturn, callArgs>>
                \/ /\ ~st.success
                   /\ lastError' = IF st.lastError.error = "None"
                                   THEN SetError("ValidationFailure",
                                                 "Failed to process glTF asset", -1)
                                   ELSE st.lastError
                   /\ Return(FALSE)
    /\ UNCHANGED <<sniffVars, playVars, loads, parserInvoked, isValid, validateOnLoad, asset, buffers,
                   textures, hasSkinning, basePose, boneMatrices, stack, rootCursor>>

\* ComputeNodeTransforms: the loop that sets the local matrices.
ComputeNodeTransforms ==
    /\ pc = "ComputeNodeTransforms"
    /\ scene' = [scene EXCEPT !.nodes =
                    [k \in 1 .. Len(scene.nodes) |->
                        [scene.nodes[k] EXCEPT !.localMatrix = BuildMatrixFromTRS(scene.nodes[k].transform)]]]
    /\ stack' = <<>>
    /\ rootCursor' = 0
    /\ pc' = "computeGlobal"
    /\ UNCHANGED <<sniffVars, playVars, loads, lastReturn, callArgs, parserInvoked, isValid, lastError,
                   validateOnLoad, asset, buffers, textures, modelAnimations, hasSkinning,
                   basePose, boneMatrices>>

\* A call computeGlobal(nodeIndex, parentMatrix) made with the frames in
\* frames on the stack: it returns at once on a bad index, needs a frame
\* otherwise, and sets the node's global matrix before it visits children.
CallComputeGlobal(frames, nodeIndex, parentMatrix) ==
    IF nodeIndex < 0 \/ nodeIndex >= Len(scene.nodes)
    THEN stack' = frames /\ UNCHANGED <<scene, pc>>
    ELSE IF Len(frames) >= MaxStack
    THEN pc' = "crashed" /\ UNCHANGED <<scene, stack>>
    ELSE /\ scene' = [scene EXCEPT !.nodes[nodeIndex + 1].globalMatrix =
                        MultMatrix(parentMatrix, At(scene.nodes, nodeIndex).localMatrix)]
         /\ stack' = Append(frames, [node |-> nodeIndex, next |-> 0])
         /\ UNCHANGED pc

\* One step of the traversal of ComputeNodeTransforms: the loop over the
\* roots when no call is open, else the loop over the children in the
\* innermost call.
computeGlobal ==
    /\ pc = "computeGlobal"
    /\ IF stack = <<>>
       THEN IF rootCursor < Len(scene.rootNodeIndices)
            THEN /\ CallComputeGlobal(stack, At(scene.rootNodeIndices, rootCursor), IdentityMatrix)
                 /\ rootCursor' = rootCursor + 1
            ELSE /\ pc' = IF hasSkinning THEN "BuildBoneHierarchy" ELSE "Finish"
                 /\ UNCHANGED <<scene, stack, rootCursor>>
       ELSE LET top == stack[Len(stack)]
                node == At(scene.nodes, top.node)
            IN  /\ IF top.next < Len(node.childIndices)
                   THEN CallComputeGlobal([stack EXCEPT ![Len(stack)].next = top.next + 1],
                                          At(node.childIndices, top.next), node.globalMatrix)
                   ELSE stack' = SubSeq(stack, 1, Len(stack) - 1) /\ UNCHANGED <<scene, pc>>
                /\ UNCHANGED rootCursor
    /\ UNCHANGED <<sniffVars, playVars, loads, lastReturn, callArgs, parserInvoked, isValid, lastError,
                   validateOnLoad, asset, buffers, textures, modelAnimations, hasSkinning,
                   basePose, boneMatrices>>

\* A global matrix that builds on the node's previous global matrix.
CombineGlobalAccumulating(node, parentMatrix) == MultMatrix(node.globalMatrix, node.localMatrix)

\* combined = parentMatrix; combined.multMatrix(node.localMatrix)
CombineGlobal(node, parentMatrix) == MultMatrix(parentMatrix, node.localMatrix)

\* ComputeNodeTransforms as one pass over the nodes nodes with the roots
\* roots: computeGlobalOn is a call of the lambda at recursion depth depth,
\* computeGlobalChildren its loop over the children from the k-th on.
RECURSIVE computeGlobalOn(_, _, _, _), computeGlobalChildren(_, _, _, _)
computeGlobalOn(nodes, nodeIndex, parentMatrix, depth) ==
    IF nodeIndex < 0 \/ nodeIndex >= Len(nodes) \/ depth >= MaxStack THEN nodes
    ELSE computeGlobalChildren(
            [nodes EXCEPT ![nodeIndex + 1].globalMatrix = CombineGlobal(nodes[nodeIndex + 1], parentMatrix)],
            nodeIndex, 1, depth)

computeGlobalChildren(nodes, nodeIndex, k, depth) ==
    IF k > Len(nodes[nodeIndex + 1].childIndices) THEN nodes
    ELSE computeGlobalChildren(
            computeGlobalOn(nodes, nodes[nodeIndex + 1].childIndices[k],
                            nodes[nodeIndex + 1].globalMatrix, depth + 1),
            nodeIndex, k + 1, depth)

RECURSIVE computeGlobalRoots(_, _, _)
computeGlobalRoots(nodes, roots, k) ==
    IF k > Len(roots) THEN nodes
    ELSE computeGlobalRoots(computeGlobalOn(nodes, roots[k], IdentityMatrix, 0), roots, k + 1)

ComputeNodeTransformsOn(sc) ==
    computeGlobalRoots(
        [k \in 1 .. Len(sc.nodes) |->
            [sc.nodes[k] EXCEPT !.localMatrix = BuildMatrixFromTRS(sc.nodes[k].transform)]],
        sc.rootNodeIndices, 1)

BuildBoneHierarchy ==
    /\ pc = "BuildBoneHierarchy"
    /\ IF Len(scene.skins) = 0 THEN UNCHANGED <<basePose, boneMatrices>>
       ELSE LET skin == scene.skins[1]
                joint(i) == At(scene.nodes, skin.jointIndices[i])
            IN  /\ basePose' = [i \in 1 .. Len(skin.jointIndices) |-> joint(i).transform]
                /\ boneMatrices' =
                      [i \in 1 .. Len(skin.jointIndices) |->
                          IF i <= Len(skin.inverseBindMatrices)
                          THEN MultMatrix(joint(i).globalMatrix, skin.inverseBindMatrices[i])
                          ELSE joint(i).globalMatrix]
    /\ pc' = "Finish"
    /\ UNCHANGED <<sniffVars, playVars, loads, lastReturn, callArgs, parserInvoked, isValid, lastError,
                   validateOnLoad, asset, buffers, textures, scene, modelAnimations,
                   hasSkinning, stack, rootCursor>>

\* LoadWithOptions after ProcessAsset: the final validation and the return.
Finish ==
    /\ pc = "Finish"
    /\ LET v == ValidateModel(asset, buffers, scene, textures, hasSkinning)
       IN  IF validateOnLoad /\ ~v.ret
           THEN lastError' = v.result /\ Return(FALSE) /\ UNCHANGED isValid
           ELSE /\ lastError' = IF validateOnLoad THEN v.result ELSE lastError
                /\ isValid' = TRUE
                /\ Return(TRUE)
    /\ UNCHANGED <<sniffVars, playVars, loads, parserInvoked, validateOnLoad, asset, buffers, textures,
                   scene, modelAnimations, hasSkinning, basePose, boneMatrices, stack,
                   rootCursor>>

(***************************************************************************)
(* UpdateAnimationState and SampleAnimation.  A sampled component is kept  *)
(* as the blend the code computes: a * (1 - num/den) + b * (num/den).      *)
(***************************************************************************)
\* The number a float of the model stands for (F32 is its encoding).
FloatNum(f) == f[1] + 256 * f[2]

\* fmod: the remainder has the sign of the dividend.
Fmod(x, d) == IF x >= 0 THEN x % d ELSE 0 - ((0 - x) % d)

Blend(kind, a, b, num, den) == [blend |-> kind, a |-> a, b |-> b, num |-> num, den |-> den]

\* The search for the bone of a node: its index in the skin's joints, or -1.
BoneOf(skin, nodeIndex) ==
    IF \E i \in 1 .. Len(skin.jointIndices) : skin.jointIndices[i] = nodeIndex
    THEN (CHOOSE i \in 1 .. Len(skin.jointIndices) :
            /\ skin.jointIndices[i] = nodeIndex
            /\ \A j \in 1 .. i - 1 : skin.jointIndices[j] # nodeIndex) - 1
    ELSE -1

\* The keyframe search: the first i with times[i] <= time < times[i + 1],
\* and 0 when there is none.
Keyframe(times, time) ==
    IF \E i \in 0 .. Len(times) - 2 :
          time >= FloatNum(At(times, i)) /\ time < FloatNum(At(times, i + 1))
    THEN CHOOSE i \in 0 .. Len(times) - 2 :
            /\ time >= FloatNum(At(times, i)) /\ time < FloatNum(At(times, i + 1))
            /\ \A j \in 0 .. i - 1 :
                  ~(time >= FloatNum(At(times, j)) /\ time < FloatNum(At(times, j + 1)))
    ELSE 0

\* A factor that is 0 whatever the time: the value of the selected keyframe.
SampleFactorZero(times, keyframe, time) == <<0, 1>>

\* The factor t as <<numerator, denominator>>.
SampleFactor(times, keyframe, time) ==
    IF /\ keyframe < Len(times) - 1
       /\ FloatNum(At(times, keyframe + 1)) - FloatNum(At(times, keyframe)) > 0
    THEN <<time - FloatNum(At(times, keyframe)),
           FloatNum(At(times, keyframe + 1)) - FloatNum(At(times, keyframe))>>
    ELSE <<0, 1>>

\* A bone transform as the copy of the base pose leaves it.
Posed(transform) ==
    LET floats(v) == [i \in 1 .. Len(v) |-> F32(v[i])]
    IN  [translation |-> Blend("base", floats(transform.translation), floats(transform.translation), 0, 1),
         rotation |-> Blend("base", floats(transform.rotation), floats(transform.rotation), 0, 1),
         scaling |-> Blend("base", floats(transform.scaling), floats(transform.scaling), 0, 1)]

ChannelSkipped(skin, channel) ==
    \/ channel.targetNodeIndex < 0
    \/ channel.samplerIndex < 0
    \/ BoneOf(skin, channel.targetNodeIndex) < 0

\* The output track of a channel, read as its target path asks.
ReadValues(a, bufs, sampler, path, g) ==
    IF path \in {"translation", "scale"}
    THEN ReadAccessorVec3(a, bufs, sampler.outputAccessorIndex, g)
    ELSE IF path = "rotation"
    THEN ReadAccessorVec4(a, bufs, sampler.outputAccessorIndex, g)
    ELSE NoRead

\* A channel whose sampling reads outside an array: a sampler index past
\* the samplers, a read past a buffer, or an empty track, for which the
\* unsigned Size() - 1 wraps around and element 0 is read.
TrackUndefined(times, values) ==
    \/ times.oob
    \/ times.ok /\ Len(times.out) = 0
    \/ times.ok /\ values.oob
    \/ times.ok /\ values.ok /\ Len(values.out) = 0

ChannelUndefined(a, bufs, anim, skin, channel, g) ==
    /\ ~ChannelSkipped(skin, channel)
    /\ \/ channel.samplerIndex >= Len(anim.samplers)
       \/ TrackUndefined(
            ReadAccessorTyped(a, bufs, At(anim.samplers, channel.samplerIndex).inputAccessorIndex, 4, g),
            ReadValues(a, bufs, At(anim.samplers, channel.samplerIndex), channel.targetPath, g))

ApplyValues(path, bone, keyframe, factor, values, out) ==
    IF ~(values.ok /\ keyframe < Len(values.out) - 1) THEN out
    ELSE IF path = "translation"
    THEN [out EXCEPT ![bone + 1].translation =
            Blend("linear", At(values.out, keyframe), At(values.out, keyframe + 1), factor[1], factor[2])]
    ELSE IF path = "rotation"
    THEN [out EXCEPT ![bone + 1].rotation =
            Blend("InterpolateQuat", At(values.out, keyframe), At(values.out, keyframe + 1), factor[1], factor[2])]
    ELSE [out EXCEPT ![bone + 1].scaling =
            Blend("linear", At(values.out, keyframe), At(values.out, keyframe + 1), factor[1], factor[2])]

ApplyTimes(path, bone, times, time, values, out) ==
    IF ~times.ok THEN out
    ELSE ApplyValues(path, bone, Keyframe(times.out, time),
                     SampleFactor(times.out, Keyframe(times.out, time), time), values, out)

ApplyChannel(a, bufs, anim, skin, channel, time, out, g) ==
    IF ChannelSkipped(skin, channel) THEN out
    ELSE ApplyTimes(channel.targetPath, BoneOf(skin, channel.targetNodeIndex),
                    ReadAccessorTyped(a, bufs, At(anim.samplers, channel.samplerIndex).inputAccessorIndex, 4, g),
                    time,
                    ReadValues(a, bufs, At(anim.samplers, channel.samplerIndex), channel.targetPath, g),
                    out)

RECURSIVE ChannelLoop(_, _, _, _, _, _, _, _)
ChannelLoop(a, bufs, anim, skin, time, k, out, g) ==
    IF k > Len(anim.channels) THEN out
    ELSE ChannelLoop(a, bufs, anim, skin, time, k + 1,
                     ApplyChannel(a, bufs, anim, skin, anim.channels[k], time, out, g), g)

\* A call of SampleAnimation that reads outside an array.
SampleUndefined(a, bufs, sc, pose, anim, g) ==
    /\ Len(sc.skins) > 0
    /\ \/ Len(pose) < Len(sc.skins[1].jointIndices)
       \/ \E k \in 1 .. Len(anim.channels) :
             ChannelUndefined(a, bufs, anim, sc.skins[1], anim.channels[k], g)

\* SampleAnimation: its return value and outBoneTransforms.
SampleAnimation(a, bufs, sc, pose, anim, time, g) ==
    IF Len(sc.skins) = 0 THEN [ret |-> FALSE, out |-> <<>>]
    ELSE [ret |-> TRUE,
          out |-> ChannelLoop(a, bufs, anim, sc.skins[1], time, 1,
                              [i \in 1 .. Len(sc.skins[1].jointIndices) |-> Posed(pose[i])], g)]

Sampled(index, time, r, undefined) ==
    [fn |-> "SampleAnimation", ret |-> r.ret, result |-> r.out,
     anim |-> index, time |-> time, undefined |-> undefined]

\* SetCurrentAnimation(index) when I_GetTime() * (1.0 / TICRATE) is now.
\* Playback is explored on an instance that has had its MaxLoads loads.
SetCurrentAnimation ==
    /\ pc = "idle"
    /\ loads = MaxLoads
    /\ \E index \in -1 .. Len(scene.animations), now \in 0 .. MaxClock :
         IF index >= 0 /\ index < Len(scene.animations)
         THEN /\ currentAnimationIndex' = index
              /\ lastAnimationTime' = now
              /\ selectedAt' = now
         ELSE /\ currentAnimationIndex' = -1
              /\ selectedAt' = -1
              /\ UNCHANGED lastAnimationTime
    /\ UNCHANGED <<sniffVars, pc, loads, lastReturn, callArgs, parserInvoked, isValid, lastError,
                   validateOnLoad, asset, buffers, textures, scene, modelAnimations,
                   hasSkinning, basePose, boneMatrices, stack, rootCursor>>

\* The body of UpdateAnimationState under anim.duration > 0 with skinning:
\* the call of SampleAnimation at animTime, which sRes keeps, and the
\* conversion of its output to bone matrices.
UpdateBones(anim, animTime) ==
    IF SampleUndefined(asset, buffers, scene, basePose, anim, 0)
    THEN /\ sRes' = Sampled(currentAnimationIndex, animTime, [ret |-> TRUE, out |-> <<>>], TRUE)
         /\ \/ pc' = "crashed" /\ UNCHANGED boneMatrices
            \/ pc' = pc /\ boneMatrices' = [i \in 1 .. Len(boneMatrices) |-> UninitMatrix]
    ELSE /\ sRes' = Sampled(currentAnimationIndex, animTime,
                            SampleAnimation(asset, buffers, scene, basePose, anim, animTime, 0),
                            FALSE)
         /\ boneMatrices' =
               [i \in 1 .. Len(boneMatrices) |->
                  IF i <= Len(sRes'.result)
                  THEN <<Factor("TRSToMatrix", sRes'.result[i], <<>>)>>
                  ELSE boneMatrices[i]]
         /\ pc' = pc

\* UpdateAnimationState(currentTime), as Render and UpdateAnimation call it,
\* for a currentAnimationIndex in range (it returns at once for another).
UpdateAnimationState ==
    /\ pc = "idle"
    /\ currentAnimationIndex >= 0
    /\ currentAnimationIndex < Len(scene.animations)
    /\ \E currentTime \in 0 .. MaxClock :
         /\ IF /\ FloatNum(At(scene.animations, currentAnimationIndex).duration) > 0
               /\ hasSkinning
               /\ Len(scene.skins) > 0
            THEN UpdateBones(At(scene.animations, currentAnimationIndex),
                             Fmod(currentTime - lastAnimationTime,
                                  FloatNum(At(scene.animations, currentAnimationIndex).duration)))
            ELSE UNCHANGED <<sRes, boneMatrices, pc>>
         /\ lastAnimationTime' = currentTime
         /\ selectedAt' = IF currentTime >= lastAnimationTime THEN selectedAt ELSE -1
    /\ UNCHANGED <<sBuf, loads, lastReturn, callArgs, parserInvoked, isValid, lastError,
                   validateOnLoad, asset, buffers, textures, scene, modelAnimations,
                   hasSkinning, basePose, stack, rootCursor, currentAnimationIndex>>

Next ==
    \/ LoadWithOptions
    \/ DetectFormat
    \/ LoadGLB
    \/ LoadGLTF
    \/ ProcessBuffers
    \/ ProcessTextures
    \/ ProcessMaterials
    \/ ProcessMeshes
    \/ ProcessNodes
    \/ ProcessSkins
    \/ ProcessAnimations
    \/ ComputeNodeTransforms
    \/ computeGlobal
    \/ BuildBoneHierarchy
    \/ Finish
    \/ SetCurrentAnimation
    \/ UpdateAnimationState

Spec == Init /\ [][Next]_vars

\* The thread that is in ComputeNodeTransforms, BuildBoneHierarchy or the
\* final validation runs on: a step of these that can be taken is taken.
FairSpec ==
    /\ Spec
    /\ WF_vars(ComputeNodeTransforms)
    /\ WF_vars(computeGlobal)
    /\ WF_vars(BuildBoneHierarchy)
    /\ WF_vars(Finish)

(***************************************************************************)
(* Claims about the load.                                                  *)
(***************************************************************************)
\* C1: a load (validateOnLoad on or off) of a buffer that starts with the
\* GLB magic, has version 2 and declares a total length greater than the
\* length it has returns false with lastError.error = CorruptedBuffer,
\* without the parser having been called.
C1_TruncatedGLBIsCorruptedBuffer ==
    [][(/\ pc = "detect"
        /\ callArgs.path # "null"
        /\ HasGLBStart(callArgs.buffer)
        /\ U32Gt(ReadU32(callArgs.buffer.bytes, 2), U32(Len(callArgs.buffer.bytes))))
          => (/\ pc' = "idle"
              /\ lastReturn' = "false"
              /\ ~parserInvoked'
              /\ lastError'.error = "CorruptedBuffer")]_vars

\* C3: every load that has come to ComputeNodeTransforms (all reads of the
\* buffers are behind it) returns, whatever the child links of the nodes.
C3_LoadReturns == (pc = "ComputeNodeTransforms") ~> (pc = "idle")

\* C4: from a LoadWithOptions call that returned false on, no step of the
\* instance makes isValid true.
C4_FailedStaysFailed == [][lastReturn = "false" => ~isValid']_vars

\* The primitives LoadMeshPrimitive decodes, by their place in the visit.
DecodedPrimitives ==
    {k \in 1 .. Len(AllPrimitives(asset.meshes, 1)) :
        LoadMeshPrimitive(asset, buffers, AllPrimitives(asset.meshes, 1)[k], 0).ok}

\* C5: when ProcessMeshes is done scene.meshes holds one entry for each
\* primitive that was decoded and no other entry; for the asset of one
\* mesh with one primitive of 3 positions that is one entry of 3 vertices.
C5_OneMeshEntryPerPrimitive ==
    (pc = "ProcessNodes")
        => /\ Len(scene.meshes) = Cardinality(DecodedPrimitives)
           /\ asset = MinimalAsset
                => (Len(scene.meshes) = 1 /\ Len(scene.meshes[1].vertices) = 3)

\* External buffers whose content is not what their URI holds: the ones the
\* last ProcessBuffers could not resolve.
Unresolved ==
    {i \in 1 .. Len(asset.buffers) :
        /\ asset.buffers[i].source = "uri"
        /\ i <= Len(buffers)
        /\ buffers[i] # asset.buffers[i].bytes}

\* What ProcessBuffers does whichever URIs resolve: it returns true with
\* every embedded buffer copied, and an external buffer either loaded or
\* left as it was (empty when the instance had no such buffer before).
BuffersStep ==
    (pc = "ProcessBuffers")
        => /\ pc' = "ProcessTextures"
           /\ Len(buffers') = Len(asset.buffers)
           /\ \A i \in 1 .. Len(asset.buffers) :
                \/ buffers'[i] = asset.buffers[i].bytes
                \/ /\ asset.buffers[i].source = "uri"
                   /\ buffers'[i] = (IF i <= Len(buffers) THEN buffers[i] ELSE <<>>)

\* C6 as the code has it: an external buffer that cannot be resolved does
\* not stop ProcessBuffers, which goes on with the other buffers and leaves
\* the affected one as it was; but with validateOnLoad the final validation
\* then fails the load with ValidationFailure "Buffer size mismatch" when
\* the buffer's length is not its declared byteLength, and only without
\* validateOnLoad does such a load end Valid.
C6_UnresolvedBufferFailsValidation ==
    [][/\ BuffersStep
       /\ (/\ pc = "Finish"
           /\ \E i \in Unresolved : Len(buffers[i]) # asset.buffers[i].byteLength)
            => IF validateOnLoad
               THEN /\ lastReturn' = "false"
                    /\ ~isValid'
                    /\ lastError' = SetError("ValidationFailure", "Buffer size mismatch", -1)
               ELSE lastReturn' = "true" /\ isValid']_vars

\* A load with validateOnLoad has failed on the external buffer it could
\* not resolve, which is empty.
C6_Witness ==
    /\ pc = "idle"
    /\ lastReturn = "false"
    /\ validateOnLoad
    /\ asset = ExternalAsset
    /\ buffers[2] = <<>>
    /\ lastError.errorMessage = "Buffer size mismatch"

\* C6 as stated: a load in which an external buffer could not be resolved
\* ends Valid, for any load options.
C6_UnresolvedBufferEndsValid ==
    [][(pc = "Finish" /\ Unresolved # {}) => (lastReturn' = "true" /\ isValid')]_vars

\* The animations whose conversion fails, none of their reads leaving its buffer.
FailingAnimations ==
    {k \in 1 .. Len(asset.animations) :
        LET conv == ConvertGLTFAnimation(asset, buffers, asset.animations[k], Len(scene.nodes), 0)
        IN  ~conv.success /\ ~conv.oob}

\* C7: when the conversion of one animation fails the other animations are
\* converted all the same and ProcessAsset goes on: the load is not aborted.
C7_FailedAnimationDoesNotAbort ==
    [][(/\ pc = "ProcessAnimations"
        /\ FailingAnimations # {}
        /\ asset \in {FirstAnimationFailsAsset, LastAnimationFailsAsset})
          => (/\ pc' = "ComputeNodeTransforms"
              /\ \A k \in 1 .. Len(asset.animations) :
                    k \notin FailingAnimations => modelAnimations'[k].filled)]_vars

(***************************************************************************)
(* Further claims about the load (Spec).                                   *)
(***************************************************************************)
BuffersMatchDeclared ==
    /\ Len(buffers) = Len(asset.buffers)
    /\ \A i \in 1 .. Len(buffers) : Len(buffers[i]) = asset.buffers[i].byteLength

\* C13 as stated: a model that is Valid has every buffer at its declared
\* byteLength, whatever the load options.
C13_ValidImpliesBufferLengths ==
    (isValid \/ (pc = "idle" /\ lastReturn = "true")) => BuffersMatchDeclared

\* C13 as amended: after a load with validateOnLoad that ends Valid (returned
\* true), every buffer's length is the byteLength the asset declares for it.
C13_ValidatedImpliesBufferLengths ==
    (validateOnLoad /\ (isValid \/ (pc = "idle" /\ lastReturn = "true")))
        => BuffersMatchDeclared

C13_Witness ==
    /\ pc = "idle" /\ lastReturn = "true" /\ isValid /\ validateOnLoad
    /\ asset = ExternalAsset
    /\ buffers[2] = F32(1)

\* An animation of the asset has a channel whose sampler index is outside
\* that animation's sampler list.
HasDanglingChannel ==
    \E k \in 1 .. Len(asset.animations) :
        \E c \in 1 .. Len(asset.animations[k].channels) :
            LET idx == asset.animations[k].channels[c].samplerIndex
            IN  idx < 0 \/ idx >= Len(asset.animations[k].samplers)

\* C14: with validateOnLoad, the final validation fails every load whose
\* asset has a channel with a sampler index outside the sampler list,
\* with or without skinned meshes.
C14_DanglingChannelFailsValidation ==
    [][(pc = "Finish" /\ validateOnLoad /\ HasDanglingChannel)
          => (lastReturn' = "false" /\ ~isValid')]_vars

\* C15: after LoadWithOptions has returned, it returned true (the model is
\* Valid) if and only if lastError holds the kind None.
C15_ValidIffNoError ==
    (pc = "idle" /\ lastReturn # "none")
        => /\ (lastReturn = "true") <=> isValid
           /\ (lastReturn = "true") <=> (lastError.error = "None")

\* The region accessor accessorIndex would read ends behind its buffer.
RegionExceedsBuffer(accessorIndex) ==
    LET accessor == At(asset.accessors, accessorIndex)
        bufferView == At(asset.bufferViews, accessor.bufferViewIndex)
    IN  bufferView.byteOffset + accessor.byteOffset
          + accessor.count * ElementByteSize(accessor.type, accessor.componentType)
        > Len(At(buffers, bufferView.bufferIndex))

ReadMustFail(accessorIndex) ==
    \/ accessorIndex < 0
    \/ accessorIndex >= Len(asset.accessors)
    \/ At(asset.accessors, accessorIndex).bufferViewIndex = -1
    \/ RegionExceedsBuffer(accessorIndex)

\* C16: in the stages that read accessors, ReadAccessor fails and copies
\* nothing for an index out of range, an accessor without a buffer view, and
\* a region that extends past the owning buffer's length.
C16_ReadAccessorChecksBounds ==
    (pc \in {"ProcessMeshes", "ProcessSkins", "ProcessAnimations"}) =>
        \A accessorIndex \in -1 .. Len(asset.accessors) :
            ReadMustFail(accessorIndex) =>
                /\ ~ReadAccessor(asset, buffers, accessorIndex, 0).ok
                /\ ReadAccessor(asset, buffers, accessorIndex, 0).data = <<>>

\* C17: in a load with validateOnLoad, the global-transform pass is never
\* under way on a node graph that ValidateNodes rejects.
C17_CycleRejectedBeforeTransforms ==
    (pc = "computeGlobal" /\ validateOnLoad) => ValidateNodes(asset, scene).ret

\* The blend x is exactly the keyframe value v.
BlendIs(x, v) ==
    /\ x.blend # "base"
    /\ \/ x.num = 0 /\ x.a = v
       \/ x.num = x.den /\ x.b = v
       \/ x.a = v /\ x.b = v

ComponentOf(transform, path) ==
    IF path = "translation" THEN transform.translation
    ELSE IF path = "rotation" THEN transform.rotation
    ELSE transform.scaling

\* Channel k of the animation the call sampled clamps at both ends of
\* its keyframe track.
ChannelClamps(call, anim, channel) ==
    LET times == ReadAccessorTyped(asset, buffers,
                    At(anim.samplers, channel.samplerIndex).inputAccessorIndex, 4, 0).out
        values == ReadValues(asset, buffers, At(anim.samplers, channel.samplerIndex),
                             channel.targetPath, 0).out
        sampled == ComponentOf(call.result[BoneOf(scene.skins[1], channel.targetNodeIndex) + 1],
                               channel.targetPath)
    IN  (Len(times) >= 1 /\ Len(values) = Len(times)) =>
            /\ call.time < FloatNum(times[1]) => BlendIs(sampled, values[1])
            /\ call.time >= FloatNum(times[Len(times)]) => BlendIs(sampled, values[Len(values)])

\* C18: a call of SampleAnimation at a time before the first keyframe of a
\* channel's track sets the targeted bone's value to exactly the first
\* keyframe value, and at a time at or after the last keyframe to exactly
\* the last keyframe value.
C18_SamplingClampsAtTrackEnds ==
    [][(/\ pc = "idle"
        /\ sRes' # sRes
        /\ sRes'.fn = "SampleAnimation"
        /\ ~sRes'.undefined)
          => \A k \in 1 .. Len(At(scene.animations, sRes'.anim).channels) :
                LET anim == At(scene.animations, sRes'.anim)
                IN  (/\ ~ChannelSkipped(scene.skins[1], anim.channels[k])
                     /\ anim.channels[k].targetPath \in {"translation", "rotation", "scale"})
                        => ChannelClamps(sRes', anim, anim.channels[k])]_vars

\* A typed read that failed and left its (empty) destination as it was.
Untouched(r) == ~r.ok /\ r.out = <<>>

\* C19: in the stages that read accessors, a vec3-float, vec4-float or
\* unsigned-index read of an accessor whose element type or component type
\* is another one fails and leaves the destination array untouched.
C19_TypeMismatchLeavesDestination ==
    (pc \in {"ProcessMeshes", "ProcessSkins", "ProcessAnimations"}) =>
        \A accessorIndex \in 0 .. Len(asset.accessors) - 1 :
            LET accessor == At(asset.accessors, accessorIndex)
            IN  /\ (accessor.type # "Vec3" \/ accessor.componentType # "Float")
                      => Untouched(ReadAccessorVec3(asset, buffers, accessorIndex, 0))
                /\ (accessor.type # "Vec4" \/ accessor.componentType # "Float")
                      => Untouched(ReadAccessorVec4(asset, buffers, accessorIndex, 0))
                /\ (\/ accessor.type # "Scalar"
                    \/ accessor.componentType \notin {"UnsignedByte", "UnsignedShort", "UnsignedInt"})
                      => Untouched(ReadAccessorU32(asset, buffers, accessorIndex, 0))

NoRepeats(seq) == \A i, j \in 1 .. Len(seq) : seq[i] = seq[j] => i = j

\* C20: after ProcessNodes, c is in p's child list if and only if c's
\* parentIndex is p, no child list names a node twice, and the root list
\* holds exactly the nodes whose parentIndex is -1.
C20_OneParentRelation ==
    (pc = "ProcessSkins") =>
        /\ \A p, c \in 0 .. Len(scene.nodes) - 1 :
              InSeq(c, At(scene.nodes, p).childIndices) <=> (At(scene.nodes, c).parentIndex = p)
        /\ \A p \in 0 .. Len(scene.nodes) - 1 : NoRepeats(At(scene.nodes, p).childIndices)
        /\ {scene.rootNodeIndices[i] : i \in 1 .. Len(scene.rootNodeIndices)}
             = {c \in 0 .. Len(scene.nodes) - 1 : At(scene.nodes, c).parentIndex = -1}

\* C21: after ProcessSkins every node marked as a bone has as boneIndex its
\* position in the joint list of the first skin.
C21_BoneIndexIsPositionInFirstSkin ==
    (pc = "ProcessAnimations") =>
        \A n \in 0 .. Len(scene.nodes) - 1 :
            At(scene.nodes, n).isBone =>
                /\ Len(scene.skins) > 0
                /\ At(scene.nodes, n).boneIndex \in 0 .. Len(scene.skins[1].jointIndices) - 1
                /\ At(scene.skins[1].jointIndices, At(scene.nodes, n).boneIndex) = n

\* The stages in which the buffers of the load are resolved and accessors are read.
ReadingStages == {"ProcessMeshes", "ProcessSkins", "ProcessAnimations"}

\* The offset in its buffer of byte j of element i of accessor accessorIndex:
\* elements are byteStride apart when the view declares a stride other than
\* the element size, else one element size apart.
SourceOffset(accessorIndex, i, j) ==
    LET accessor == At(asset.accessors, accessorIndex)
        bufferView == At(asset.bufferViews, accessor.bufferViewIndex)
        E == ElementByteSize(accessor.type, accessor.componentType)
        S == bufferView.byteStride
    IN  bufferView.byteOffset + accessor.byteOffset + i * (IF S # 0 /\ S # E THEN S ELSE E) + j

SourceBuffer(accessorIndex) ==
    At(buffers, At(asset.bufferViews, At(asset.accessors, accessorIndex).bufferViewIndex).bufferIndex)

\* The read r of accessor accessorIndex gives count N, stride E and N * E
\* bytes, each equal to the source byte of its element where that byte exists.
Deinterleaved(accessorIndex, r) ==
    LET accessor == At(asset.accessors, accessorIndex)
        E == ElementByteSize(accessor.type, accessor.componentType)
    IN  /\ r.ok
        /\ r.count = accessor.count
        /\ r.stride = E
        /\ Len(r.data) = accessor.count * E
        /\ \A i \in 0 .. accessor.count - 1, j \in 0 .. E - 1 :
              SourceOffset(accessorIndex, i, j) < Len(SourceBuffer(accessorIndex)) =>
                  At(r.data, i * E + j) = At(SourceBuffer(accessorIndex), SourceOffset(accessorIndex, i, j))

\* C22: ReadAccessor returns count N, element stride E and N * E bytes in
\* which element i holds the E source bytes at base + i * S when the view
\* declares a stride S other than E, and at base + i * E otherwise.
C22_ReadAccessorDeinterleaves ==
    (pc \in ReadingStages) =>
        \A accessorIndex \in 0 .. Len(asset.accessors) - 1, g \in GarbageBytes :
            At(asset.accessors, accessorIndex).bufferViewIndex # -1 =>
                Deinterleaved(accessorIndex, ReadAccessor(asset, buffers, accessorIndex, g))

\* The two interleaved positions are read packed: markers 1..12 and 17..28.
C22_Witness ==
    /\ pc = "ProcessMeshes"
    /\ asset = InterleavedAsset
    /\ ReadAccessor(asset, buffers, 0, 0).data
         = [k \in 1 .. 24 |-> IF k <= 12 THEN k ELSE k + 4]

\* The time lies in interval i of the track: times[i] <= time < times[i + 1].
Brackets(times, i, time) ==
    time >= FloatNum(At(times, i)) /\ time < FloatNum(At(times, i + 1))

\* Channel k is the last channel of anim for its node and path.
LastForTarget(anim, k) ==
    \A l \in k + 1 .. Len(anim.channels) :
        \/ anim.channels[l].targetNodeIndex # anim.channels[k].targetNodeIndex
        \/ anim.channels[l].targetPath # anim.channels[k].targetPath

\* For a time inside the track of the channel, the call blended the values
\* of the first interval i that brackets the time, with the factor
\* (time - times[i]) / (times[i + 1] - times[i]).
ChannelInterpolates(call, anim, channel) ==
    LET times == ReadAccessorTyped(asset, buffers,
                    At(anim.samplers, channel.samplerIndex).inputAccessorIndex, 4, 0).out
        values == ReadValues(asset, buffers, At(anim.samplers, channel.samplerIndex),
                             channel.targetPath, 0).out
        sampled == ComponentOf(call.result[BoneOf(scene.skins[1], channel.targetNodeIndex) + 1],
                               channel.targetPath)
    IN  \A i \in 0 .. Len(times) - 2 :
            (/\ Len(values) = Len(times)
             /\ Brackets(times, i, call.time)
             /\ \A j \in 0 .. i - 1 : ~Brackets(times, j, call.time))
                => /\ sampled.blend # "base"
                   /\ sampled.a = At(values, i)
                   /\ sampled.b = At(values, i + 1)
                   /\ sampled.num = call.time - FloatNum(At(times, i))
                   /\ sampled.den = FloatNum(At(times, i + 1)) - FloatNum(At(times, i))
                   /\ 0 <= sampled.num /\ sampled.num < sampled.den

\* C23: a call of SampleAnimation at a time inside a channel's keyframe
\* track selects the first interval [times[i], times[i + 1]) that holds the
\* time and interpolates its two values with the factor
\* u = (time - times[i]) / (times[i + 1] - times[i]), 0 <= u < 1; a
\* zero-length interval gives the factor 0 without a division.
C23_SamplingInterpolatesInsideTrack ==
    [][(/\ pc = "idle"
        /\ sRes' # sRes
        /\ sRes'.fn = "SampleAnimation"
        /\ ~sRes'.undefined)
          => LET anim == At(scene.animations, sRes'.anim)
             IN  /\ \A k \in 1 .. Len(anim.channels) :
                       (/\ ~ChannelSkipped(scene.skins[1], anim.channels[k])
                        /\ anim.channels[k].targetPath \in {"translation", "rotation", "scale"}
                        /\ LastForTarget(anim, k))
                           => ChannelInterpolates(sRes', anim, anim.channels[k])
                 /\ \A times \in {<<F32(1), F32(1)>>, <<F32(0), F32(2), F32(2)>>} :
                       \A keyframe \in 0 .. Len(times) - 2 :
                          FloatNum(At(times, keyframe)) = FloatNum(At(times, keyframe + 1))
                              => SampleFactor(times, keyframe, sRes'.time) = <<0, 1>>]_vars

\* A call sampled the second interval of the three-keyframe track half way.
C23_Witness ==
    /\ sRes.fn = "SampleAnimation"
    /\ ~sRes.undefined
    /\ asset = ThreeKeyAsset
    /\ sRes.time = 2
    /\ sRes.result[2].translation
         = Blend("linear", <<F32(1), F32(1), F32(1)>>, <<F32(2), F32(2), F32(2)>>, 1, 2)

\* A matrix without the factors that are loaded identity matrices.
WithoutIdentity(matrix) ==
    LET kept(factor) == ~(factor.f = "mat" /\ factor.m = Mat4Bytes(0))
    IN  SelectSeq(matrix, kept)

\* C24: after BuildBoneHierarchy, for every joint position i of the first
\* skin, boneMatrices[i] is the joint node's global matrix times the i-th
\* inverse-bind matrix when the skin has one, the global matrix itself when
\* it has none or the identity, and basePose[i] is the joint node's TRS.
C24_BoneMatrixIsGlobalTimesInverseBind ==
    (pc = "Finish" /\ hasSkinning /\ Len(scene.skins) > 0) =>
        LET skin == scene.skins[1]
            joint(i) == At(scene.nodes, skin.jointIndices[i])
        IN  /\ Len(boneMatrices) = Len(skin.jointIndices)
            /\ Len(basePose) = Len(skin.jointIndices)
            /\ \A i \in 1 .. Len(skin.jointIndices) :
                  /\ basePose[i] = joint(i).transform
                  /\ i <= Len(skin.inverseBindMatrices)
                        => /\ boneMatrices[i] = joint(i).globalMatrix \o skin.inverseBindMatrices[i]
                           /\ skin.inverseBindMatrices[i] = <<Factor("mat", IdentityTRS, Mat4Bytes(0))>>
                                 => WithoutIdentity(boneMatrices[i]) = joint(i).globalMatrix
                  /\ i > Len(skin.inverseBindMatrices)
                        => boneMatrices[i] = joint(i).globalMatrix

\* The bone matrices of the asset with inverse-bind matrices: joint 0 has
\* the identity, joint 1 a translation behind its global matrix.
C24_Witness ==
    /\ pc = "Finish"
    /\ hasSkinning
    /\ asset = InverseBindAsset
    /\ loads = 1
    /\ Len(scene.skins[1].inverseBindMatrices) = 2
    /\ WithoutIdentity(boneMatrices[1]) = <<Factor("trs", TRSAt(1), <<>>)>>
    /\ boneMatrices[2] = <<Factor("trs", TRSAt(1), <<>>), Factor("trs", TRSAt(2), <<>>),
                           Factor("mat", IdentityTRS, Mat4Bytes(5))>>

\* The nodes the traversal reaches from the nodes in front: the children, in
\* range, of those it has reached.
RECURSIVE ReachableFrom(_, _)
ReachableFrom(nodes, front) ==
    LET more == {c \in 0 .. Len(nodes) - 1 :
                    \E p \in front : InSeq(c, At(nodes, p).childIndices)} \ front
    IN  IF more = {} THEN front ELSE ReachableFrom(nodes, front \cup more)

\* The roots in range, and the nodes reachable from them.
RootSet == {r \in 0 .. Len(scene.nodes) - 1 : InSeq(r, scene.rootNodeIndices)}

Reachable == ReachableFrom(scene.nodes, RootSet)

\* C25: after ComputeNodeTransforms, a root's global matrix is its own local
\* matrix and the global matrix of every other node reachable from a root is
\* its parent's global matrix times its own local matrix.
C25_GlobalIsParentGlobalTimesLocal ==
    (pc \in {"BuildBoneHierarchy", "Finish"}) =>
        \A n \in Reachable :
            LET node == At(scene.nodes, n)
            IN  /\ node.localMatrix = BuildMatrixFromTRS(node.transform)
                /\ n \in RootSet => node.globalMatrix = node.localMatrix
                /\ n \notin RootSet =>
                      /\ node.parentIndex \in 0 .. Len(scene.nodes) - 1
                      /\ node.globalMatrix
                           = At(scene.nodes, node.parentIndex).globalMatrix \o node.localMatrix

\* C26: a second run of ComputeNodeTransforms on the scene the first run
\* left gives every node the local and global matrix it already has.
C26_TransformPassIdempotent ==
    (pc \in {"BuildBoneHierarchy", "Finish"}) => ComputeNodeTransformsOn(scene) = scene.nodes

\* The scene with every local and global matrix as a new node has it.
Uncomposed(sc) ==
    [k \in 1 .. Len(sc.nodes) |->
        [sc.nodes[k] EXCEPT !.localMatrix = DefaultNode.localMatrix,
                            !.globalMatrix = DefaultNode.globalMatrix]]

\* The pass has run on a root with two children and composed their
\* matrices; running it on the uncomposed scene composes them again.
C26_Witness ==
    /\ pc = "Finish"
    /\ asset = AnimatedAsset
    /\ loads = 1
    /\ At(scene.nodes, 2).globalMatrix = <<Factor("trs", TRSAt(2), <<>>)>>
    /\ ComputeNodeTransformsOn([scene EXCEPT !.nodes = Uncomposed(scene)]) = scene.nodes

\* What LoadMeshPrimitive returns for each primitive of the asset, in the
\* order of the visit, and the ones among them that were decoded.
PrimitiveLoads(g) ==
    [k \in 1 .. Len(AllPrimitives(asset.meshes, 1)) |->
        LoadMeshPrimitive(asset, buffers, AllPrimitives(asset.meshes, 1)[k], g)]

DecodedLoads(g) ==
    LET decoded(loaded) == loaded.ok
    IN  SelectSeq(PrimitiveLoads(g), decoded)

\* The entries ProcessMeshes pushed behind the ones its Resize made.
PushedMeshes(sc) == SubSeq(sc.meshes, Len(asset.meshes) + 1, Len(sc.meshes))

\* ProcessMeshes has left in sc and err what the claim says: a primitive
\* without POSITION is refused with MissingRequiredData and has no entry,
\* and every decoded primitive has its entry, in order.
MeshesLoaded(sc, err, g) ==
    /\ \A k \in 1 .. Len(PrimitiveLoads(g)) :
          ~HasAttribute(AllPrimitives(asset.meshes, 1)[k], "POSITION")
              => /\ ~PrimitiveLoads(g)[k].ok
                 /\ PrimitiveLoads(g)[k].result.error = "MissingRequiredData"
                 /\ k = Len(PrimitiveLoads(g)) => err.error = "MissingRequiredData"
    /\ Len(PushedMeshes(sc)) = Len(DecodedLoads(g))
    /\ \A j \in 1 .. Len(DecodedLoads(g)) :
          PushedMeshes(sc)[j].vertices = DecodedLoads(g)[j].mesh.vertices

\* C27: ProcessMeshes refuses a primitive without POSITION with
\* MissingRequiredData and pushes no entry for it, pushes an entry for every
\* other primitive it decodes, and goes on to ProcessNodes: the load neither
\* returns nor fails in it (the process may die only of a read outside a buffer).
C27_MissingPositionSkipsPrimitive ==
    [][(pc = "ProcessMeshes")
          => \/ /\ pc' = "crashed"
                /\ \E k \in 1 .. Len(PrimitiveLoads(0)) : PrimitiveLoads(0)[k].oob
             \/ /\ pc' = "ProcessNodes"
                /\ lastReturn' = lastReturn
                /\ \E g \in GarbageBytes : MeshesLoaded(scene', lastError', g)]_vars

\* ProcessMeshes has run on the asset with two primitives without POSITION
\* around a complete one: one entry of 3 vertices behind the two of Resize.
C27_Witness ==
    /\ pc = "ProcessNodes"
    /\ asset = NoPositionAsset
    /\ loads = 1
    /\ Len(scene.meshes) = 3
    /\ Len(scene.meshes[3].vertices) = 3
    /\ lastError.error = "MissingRequiredData"

\* The stages of ProcessAsset in the order the claim gives; the transform
\* composition is the stages ComputeNodeTransforms and computeGlobal.
StageOrder ==
    <<"ProcessBuffers", "ProcessTextures", "ProcessMaterials", "ProcessMeshes", "ProcessNodes",
      "ProcessSkins", "ProcessAnimations", "ComputeNodeTransforms", "computeGlobal",
      "BuildBoneHierarchy">>

StagePosition(stage) == CHOOSE k \in 1 .. Len(StageOrder) : StageOrder[k] = stage

IsStage(stage) == \E k \in 1 .. Len(StageOrder) : StageOrder[k] = stage

\* C28: a load enters each stage of ProcessAsset from the stage before it
\* in the order buffers, textures, materials, meshes, nodes, skins,
\* animations, transform composition, bone hierarchy, and from nowhere
\* else; the buffers change in the buffers stage only, which is over before
\* a stage that decodes accessors begins, and the bone hierarchy is built
\* only when the traversal of the transform pass has returned from every root.
C28_StagesRunInOrder ==
    [][/\ (IsStage(pc') /\ pc' # pc) =>
             IF pc' = "ProcessBuffers" THEN pc \in {"LoadGLB", "LoadGLTF"}
             ELSE IsStage(pc) /\ StagePosition(pc') = StagePosition(pc) + 1
       /\ (IsStage(pc) /\ pc' # pc) =>
             \/ IsStage(pc') /\ StagePosition(pc') = StagePosition(pc) + 1
             \/ pc' = "crashed"
             \/ pc' = "idle" /\ pc = "ProcessAnimations" /\ lastReturn' = "false"
             \/ pc' = "Finish" /\ pc \in {"computeGlobal", "BuildBoneHierarchy"}
       /\ buffers' # buffers => pc = "ProcessBuffers"
       /\ (pc' \in ReadingStages /\ pc' # pc) => pc \notin {"LoadGLB", "LoadGLTF", "ProcessBuffers"}
       /\ (pc' \in {"BuildBoneHierarchy", "Finish"} /\ pc = "computeGlobal") =>
             stack = <<>> /\ rootCursor = Len(scene.rootNodeIndices)]_vars

\* A load of a skinned asset has run through every stage to the end of the
\* bone hierarchy.
C28_Witness ==
    /\ pc = "Finish"
    /\ hasSkinning
    /\ asset = SkinnedAsset
    /\ loads = 1
    /\ Len(buffers) = 1
    /\ Len(boneMatrices) = 2
    /\ boneMatrices[2] = At(scene.nodes, 1).globalMatrix

\* An update of the selected animation that finds skinning data and a positive duration.
UpdateSamples ==
    /\ pc = "idle"
    /\ currentAnimationIndex >= 0
    /\ currentAnimationIndex < Len(scene.animations)
    /\ FloatNum(At(scene.animations, currentAnimationIndex).duration) > 0
    /\ hasSkinning
    /\ Len(scene.skins) > 0

\* C29: after SetCurrentAnimation selected an animation at time T0, an update
\* at a time Tk later than the update before it (none since the selection
\* having gone back in time) samples the animation at (Tk - T0) mod duration.
C29_PlaybackTimeSinceSelection ==
    [][(/\ UpdateSamples
        /\ selectedAt >= 0
        /\ selectedAt' = selectedAt
        /\ lastAnimationTime' > lastAnimationTime)
          => /\ sRes'.fn = "SampleAnimation"
             /\ sRes'.anim = currentAnimationIndex
             /\ sRes'.time
                  = Fmod(lastAnimationTime' - selectedAt,
                         FloatNum(At(scene.animations, currentAnimationIndex).duration))]_vars

\* C30: while the accessors of a load are read, if ValidateAccessors accepts
\* the accessors over the load's buffers, then no byte ReadAccessor copies
\* for an accessor with a buffer view lies outside the owning buffer,
\* whatever the view's byteStride.
C30_AcceptedAccessorReadsInsideBuffer ==
    (pc \in ReadingStages /\ ValidateAccessors(asset, buffers).ret) =>
        \A accessorIndex \in 0 .. Len(asset.accessors) - 1, g \in GarbageBytes :
            At(asset.accessors, accessorIndex).bufferViewIndex # -1 =>
                ~ReadAccessor(asset, buffers, accessorIndex, g).oob

(***************************************************************************)
(* Further claims about the sniffers (SniffSpec).                          *)
(***************************************************************************)
\* C12: on a null buffer and on a buffer shorter than 4 bytes, IsGLTFFile and
\* IsGLBFile return false with invalid-format without reading a byte, and
\* the format decision of the load is "unrecognized".
C12_ShortBufferUnrecognized ==
    (/\ sRes.fn \in {"IsGLTFFile", "IsGLBFile"}
     /\ (sBuf.null \/ Len(sBuf.bytes) < 4))
        => /\ ~sRes.ret
           /\ sRes.result.error = "InvalidFormat"
           /\ IsGLTFFileReads(sBuf) = 0
           /\ IsGLBFileReads(sBuf) = 0
           /\ DetermineFormat(sBuf, ClearResult).format = "none"
           /\ DetermineFormat(sBuf, ClearResult).result.error = "InvalidFormat"

C12_Witness ==
    /\ sRes.fn = "IsGLBFile"
    /\ ~sBuf.null
    /\ Len(sBuf.bytes) = 3
    /\ ~sRes.ret

====
